---- MODULE Spec2Model ----
(***************************************************************************)
(* Model of the remote data access layer of ASISCIMMA:                     *)
(*   - rate_limited        (src/utils/google_sheets.py, lines 18-84)       *)
(*   - retry_with_backoff  (src/utils/google_sheets.py, lines 87-132)      *)
(*   - CacheManager        (src/utils/cache_manager.py)                    *)
(*                                                                         *)
(* Time is counted in ticks of half a second, so that the 0.5 s margin of  *)
(* the rate limiter is one tick and its 60 s window is 120 ticks.          *)
(***************************************************************************)
EXTENDS Integers, Sequences, FiniteSets, TLC

(***************************************************************************)
(* Bounds of the model                                                     *)
(***************************************************************************)
\* calls_per_minute of the decorated function (the code uses 30, 35, 40, 45)
CallsPerMinute == 2
\* number of threads that call the same wrapper
NumThreads == 2
\* number of calls issued through the wrapper in one behaviour
MaxCalls == 4

(***************************************************************************)
(* Program constants of rate_limited                                       *)
(***************************************************************************)
\* the 60 second window, in ticks
Window == 120
\* the 0.5 second margin added to the wait for the window reset, in ticks
Margin == 1
\* min_interval = 60.0 / calls_per_minute
MinInterval == Window \div CallsPerMinute

Threads == 1..NumThreads
\* the thread of the sequential specifications
MainThread == 1

\* idle time before a call and running time of the wrapped function
Gaps == {0, 1, MinInterval, Window}
FuncTimes == {0, 1}
\* time.sleep suspends for at least the requested time
Oversleep == {0, 1}
\* time.time() when the decorator is applied: long after the epoch
StartTime == Window

VARIABLES
    now,            \* time.time()
    lock,           \* the lock flag of the wrapper
    request_count,  \* request_count[0]
    reset_time,     \* reset_time[0]
    last_called,    \* last_called[0]
    pc,             \* position of each thread in the wrapper
    current_time,   \* current_time, local of each call
    wake,           \* earliest time a sleeping thread resumes
    sleep_req,      \* argument of the last time.sleep of each call
    loaded,         \* value of request_count[0] read by "+= 1"
    invoked,        \* times at which the wrapped function was invoked
    counted,        \* invocations since request_count[0] was last set to 0
    ncalls          \* calls issued so far

rate_vars == <<now, lock, request_count, reset_time, last_called, pc,
               current_time, wake, sleep_req, loaded, invoked, counted, ncalls>>

VARIABLES
    max_retries,    \* arguments of retry_with_backoff
    initial_delay,
    backoff_factor, \* <<numerator, denominator>>
    r_pc,           \* position in retry_with_backoff.wrapper
    attempt,        \* loop variable of "for attempt in range(max_retries + 1)"
    delay,          \* delay, in sixteenths of a second
    last_exception, \* last_exception
    tries,          \* invocations of the wrapped operation
    slept,          \* durations of the sleeps taken, in order
    outcome,        \* what the wrapper returned or raised
    op_value,       \* what the wrapped operation returned
    log             \* records written to the logger

retry_vars == <<max_retries, initial_delay, backoff_factor, r_pc, attempt,
                delay, last_exception, tries, slept, outcome, op_value, log>>

VARIABLES
    clock,          \* datetime.now(), in seconds
    session_state,  \* st.session_state: the keys present and their values
    cache_stats,    \* CacheManager._cache_stats
    cache_ret,      \* what the last operation of CacheManager returned
    cache_ops       \* operations of CacheManager called so far

cache_vars == <<clock, session_state, cache_stats, cache_ret, cache_ops>>

VARIABLES
    c_pc,           \* position of each thread inside an operation of the cache
    c_call,         \* the operation a thread is executing, with its arguments
    c_local,        \* cache_data, local of get
    c_loaded,       \* value of a counter read by "+= n"
    c_half,         \* whether the read of "+= n" is done and its write is not
    c_todo,         \* keys_to_remove not deleted yet
    c_result,       \* what the last operation of each thread returned or raised
    gets_called,    \* calls of get so far
    race_ops        \* operations started by the threads so far

race_vars == <<c_pc, c_call, c_local, c_loaded, c_half, c_todo, c_result,
               gets_called, race_ops>>

VARIABLES
    workbook,           \* the worksheets of the course spreadsheet
    parse_time,         \* datetime.now() of _load_courses_raw
    parse_pc,           \* position inside _load_courses_raw
    worksheet_index,    \* the worksheet the loop of _load_courses_raw is at
    courses,            \* local of _load_courses_raw
    successful_sheets,  \* local of _load_courses_raw
    failed_sheets,      \* local of _load_courses_raw
    parse_result,       \* what the last call of _load_courses_raw returned
    previous_result,    \* what the call before the last returned
    parse_runs          \* calls of _load_courses_raw ended so far

parse_vars == <<workbook, parse_time, parse_pc, worksheet_index, courses,
                successful_sheets, failed_sheets, parse_result,
                previous_result, parse_runs>>

VARIABLES
    facade_call,        \* the public operation called, and what fails in it
    facade_outcome      \* how the operation ended

facade_vars == <<facade_call, facade_outcome>>

VARIABLES
    sheet_time,         \* the time, in minutes
    tabs,               \* the tabs of the attendance spreadsheet
    data_cache,         \* the entries of st.cache_data
    attendance_cache,   \* _attendance_cache of each GoogleSheetsManager
    remote_calls,       \* fetches made so far, per document read
    sheet_ret,          \* the last operation of a manager and its outcome
    sheet_ops           \* operations of the managers so far

sheets_vars == <<sheet_time, tabs, data_cache, attendance_cache,
                 remote_calls, sheet_ret, sheet_ops>>

VARIABLES
    report_call,        \* the function of the reports called, with its arguments
    report_result       \* what it returned

report_vars == <<report_call, report_result>>

VARIABLES
    budget_now,         \* time.time(), in ticks
    limiters,           \* the closure of rate_limited of each decorated function
    remote_log,         \* the calls of the remote client made so far
    budget_ops          \* operations of the data layer so far

budget_vars == <<budget_now, limiters, remote_log, budget_ops>>

VARIABLES
    read_req,           \* the read under way: the operation and its arguments
    read_pc,            \* where the read is: going in, coming out, idle
    read_depth,         \* the layer of the read that runs
    read_attempt,       \* "attempt" of retry_with_backoff
    read_raised,        \* an exception is propagating
    read_trace,         \* the steps of the read so far
    st_cache_data,      \* the keys that st.cache_data holds a value for
    local_cache         \* the keys of _attendance_cache of the manager

read_vars == <<read_req, read_pc, read_depth, read_attempt, read_raised,
               read_trace, st_cache_data, local_cache>>

\* what the actions of one component leave alone
rate_frame == <<retry_vars, cache_vars, race_vars, parse_vars, facade_vars,
                sheets_vars, report_vars, budget_vars, read_vars>>
retry_frame == <<rate_vars, cache_vars, race_vars, parse_vars, facade_vars,
                 sheets_vars, report_vars, budget_vars, read_vars>>
cache_frame == <<rate_vars, retry_vars, race_vars, parse_vars, facade_vars,
                 sheets_vars, report_vars, budget_vars, read_vars>>
race_frame == <<rate_vars, retry_vars, cache_ret, cache_ops, parse_vars,
                facade_vars, sheets_vars, report_vars, budget_vars,
                read_vars>>
parse_frame == <<rate_vars, retry_vars, cache_vars, race_vars, facade_vars,
                 sheets_vars, report_vars, budget_vars, read_vars>>
facade_frame == <<rate_vars, retry_vars, cache_vars, race_vars, parse_vars,
                  sheets_vars, report_vars, budget_vars, read_vars>>
sheets_frame == <<rate_vars, retry_vars, cache_vars, race_vars, parse_vars,
                  facade_vars, report_vars, budget_vars, read_vars>>
report_frame == <<rate_vars, retry_vars, cache_vars, race_vars, parse_vars,
                  facade_vars, sheets_vars, budget_vars, read_vars>>
budget_frame == <<rate_vars, retry_vars, cache_vars, race_vars, parse_vars,
                  facade_vars, sheets_vars, report_vars, read_vars>>
read_frame == <<rate_vars, retry_vars, cache_vars, race_vars, parse_vars,
                facade_vars, sheets_vars, report_vars, budget_vars>>

vars == <<rate_vars, retry_vars, cache_vars, race_vars, parse_vars,
          facade_vars, sheets_vars, report_vars, budget_vars, read_vars>>

Max(a, b) == IF a >= b THEN a ELSE b

(***************************************************************************)
(* rate_limited                                                            *)
(***************************************************************************)
RateInit ==
    /\ now = StartTime
    /\ lock = FALSE
    /\ request_count = 0
    /\ reset_time = StartTime + Window
    /\ last_called = 0
    /\ pc = [t \in Threads |-> "idle"]
    /\ current_time = [t \in Threads |-> 0]
    /\ wake = [t \in Threads |-> 0]
    /\ sleep_req = [t \in Threads |-> 0]
    /\ loaded = [t \in Threads |-> 0]
    /\ invoked = <<>>
    /\ counted = 0
    /\ ncalls = 0

\* "if current_time > reset_time[0]"
WindowExpired(cur, reset) == cur > reset

\* "if request_count[0] >= calls_per_minute"
CeilingReachedEarly(count) == count + 1 >= CallsPerMinute
CeilingReached(count) == count >= CallsPerMinute

\* "left_to_wait = min_interval - elapsed"
LeftToWait(cur, last) == MinInterval - (cur - last)

\* a thread calls the wrapper, d ticks after the previous event
Call(t, d) ==
    /\ pc[t] = "idle"
    /\ ncalls < MaxCalls
    /\ ncalls' = ncalls + 1
    /\ now' = now + d
    /\ pc' = [pc EXCEPT ![t] = "test_lock"]
    /\ UNCHANGED <<lock, request_count, reset_time, last_called, current_time,
                   wake, sleep_req, loaded, invoked, counted>>
    /\ UNCHANGED rate_frame

\* "while lock:"
TestLock(t) ==
    /\ pc[t] = "test_lock"
    /\ pc' = [pc EXCEPT ![t] = IF lock THEN "spin_sleep" ELSE "set_lock"]
    /\ UNCHANGED <<now, lock, request_count, reset_time, last_called,
                   current_time, wake, sleep_req, loaded, invoked, counted, ncalls>>
    /\ UNCHANGED rate_frame

\* "time.sleep(0.01)" inside the spin loop (shorter than a tick)
SpinSleep(t) ==
    /\ pc[t] = "spin_sleep"
    /\ pc' = [pc EXCEPT ![t] = "test_lock"]
    /\ UNCHANGED <<now, lock, request_count, reset_time, last_called,
                   current_time, wake, sleep_req, loaded, invoked, counted, ncalls>>
    /\ UNCHANGED rate_frame

\* "lock = True"
SetLock(t) ==
    /\ pc[t] = "set_lock"
    /\ lock' = TRUE
    /\ pc' = [pc EXCEPT ![t] = "enter"]
    /\ UNCHANGED <<now, request_count, reset_time, last_called, current_time,
                   wake, sleep_req, loaded, invoked, counted, ncalls>>
    /\ UNCHANGED rate_frame

\* lines 42-55: read the clock, reset an expired window, and start the wait
\* for the window reset when the ceiling is reached
Enter(t) ==
    /\ pc[t] = "enter"
    /\ LET cur == now
           expired == WindowExpired(cur, reset_time)
           count == IF expired THEN 0 ELSE request_count
           reset == IF expired THEN cur + Window ELSE reset_time
           wait_time == reset - cur
       IN  /\ current_time' = [current_time EXCEPT ![t] = cur]
           /\ request_count' = count
           /\ reset_time' = reset
           /\ counted' = IF expired THEN 0 ELSE counted
           /\ IF CeilingReached(count) /\ wait_time > 0
              THEN /\ pc' = [pc EXCEPT ![t] = "sleep_limit"]
                   /\ sleep_req' = [sleep_req EXCEPT ![t] = wait_time + Margin]
                   /\ wake' = [wake EXCEPT ![t] = now + wait_time + Margin]
              ELSE /\ pc' = [pc EXCEPT ![t] = "pace"]
                   /\ UNCHANGED <<sleep_req, wake>>
    /\ UNCHANGED <<now, lock, last_called, loaded, invoked, ncalls>>
    /\ UNCHANGED rate_frame

\* lines 55-58: the sleep ends, the counter and the window restart
WakeLimit(t, over) ==
    /\ pc[t] = "sleep_limit"
    /\ now' = Max(now, wake[t]) + over
    /\ request_count' = 0
    /\ counted' = 0
    /\ reset_time' = now' + Window
    /\ pc' = [pc EXCEPT ![t] = "pace"]
    /\ UNCHANGED <<lock, last_called, current_time, wake, sleep_req, loaded,
                   invoked, ncalls>>
    /\ UNCHANGED rate_frame

\* lines 61-64: the minimum interval between calls
Pace(t) ==
    /\ pc[t] = "pace"
    /\ LET left_to_wait == LeftToWait(current_time[t], last_called)
       IN  IF left_to_wait > 0
           THEN /\ pc' = [pc EXCEPT ![t] = "sleep_pace"]
                /\ sleep_req' = [sleep_req EXCEPT ![t] = left_to_wait]
                /\ wake' = [wake EXCEPT ![t] = now + left_to_wait]
           ELSE /\ pc' = [pc EXCEPT ![t] = "incr_load"]
                /\ UNCHANGED <<sleep_req, wake>>
    /\ UNCHANGED <<now, lock, request_count, reset_time, last_called,
                   current_time, loaded, invoked, counted, ncalls>>
    /\ UNCHANGED rate_frame

\* line 64: the sleep for the minimum interval ends
WakePace(t, over) ==
    /\ pc[t] = "sleep_pace"
    /\ now' = Max(now, wake[t]) + over
    /\ pc' = [pc EXCEPT ![t] = "incr_load"]
    /\ UNCHANGED <<lock, request_count, reset_time, last_called, current_time,
                   wake, sleep_req, loaded, invoked, counted, ncalls>>
    /\ UNCHANGED rate_frame

\* line 67, "request_count[0] += 1": the read
IncrLoad(t) ==
    /\ pc[t] = "incr_load"
    /\ loaded' = [loaded EXCEPT ![t] = request_count]
    /\ pc' = [pc EXCEPT ![t] = "incr_store"]
    /\ UNCHANGED <<now, lock, request_count, reset_time, last_called,
                   current_time, wake, sleep_req, invoked, counted, ncalls>>
    /\ UNCHANGED rate_frame

\* lines 67-68: the write of "+= 1", then the wrapped function is invoked
IncrStore(t) ==
    /\ pc[t] = "incr_store"
    /\ request_count' = loaded[t] + 1
    /\ counted' = counted + 1
    /\ invoked' = Append(invoked, now)
    /\ pc' = [pc EXCEPT ![t] = "func"]
    /\ UNCHANGED <<now, lock, reset_time, last_called, current_time, wake,
                   sleep_req, loaded, ncalls>>
    /\ UNCHANGED rate_frame

\* lines 68-69: the wrapped function returns after d ticks
FuncReturn(t, d) ==
    /\ pc[t] = "func"
    /\ now' = now + d
    /\ last_called' = now'
    /\ pc' = [pc EXCEPT ![t] = "release"]
    /\ UNCHANGED <<lock, request_count, reset_time, current_time, wake,
                   sleep_req, loaded, invoked, counted, ncalls>>
    /\ UNCHANGED rate_frame

\* a wrapper without the finally clause: the error leaves it at once
FuncRaiseNoFinally(t, d) ==
    /\ pc[t] = "func"
    /\ now' = now + d
    /\ pc' = [pc EXCEPT ![t] = "idle"]
    /\ UNCHANGED <<lock, request_count, reset_time, last_called, current_time,
                   wake, sleep_req, loaded, invoked, counted, ncalls>>
    /\ UNCHANGED rate_frame

\* lines 68, 77-79: the wrapped function raises after d ticks
FuncRaise(t, d) ==
    /\ pc[t] = "func"
    /\ now' = now + d
    /\ pc' = [pc EXCEPT ![t] = "release"]
    /\ UNCHANGED <<lock, request_count, reset_time, last_called, current_time,
                   wake, sleep_req, loaded, invoked, counted, ncalls>>
    /\ UNCHANGED rate_frame

\* lines 80-81: "finally: lock = False"
Release(t) ==
    /\ pc[t] = "release"
    /\ lock' = FALSE
    /\ pc' = [pc EXCEPT ![t] = "idle"]
    /\ UNCHANGED <<now, request_count, reset_time, last_called, current_time,
                   wake, sleep_req, loaded, invoked, counted, ncalls>>
    /\ UNCHANGED rate_frame

(***************************************************************************)
(* retry_with_backoff                                                      *)
(***************************************************************************)
\* largest max_retries tried
MaxRetries == 2
\* initial_delay: 1.5 s (the default) and 2 s (_load_courses_raw), in
\* sixteenths of a second
InitialDelays == {24, 32}
\* backoff_factor: 2.5 (the default), 2 and 1, as <<numerator, denominator>>
BackoffFactors == {<<5, 2>>, <<2, 1>>, <<1, 1>>}
\* what the wrapped operation can return
Values == {"v1", "v2"}

\* the errors of the remote client: the class of the exception and the HTTP
\* status that str(e) shows
QuotaExceeded == [cls |-> "APIError", status |-> 429]
Unauthorized == [cls |-> "APIError", status |-> 401]
Forbidden == [cls |-> "APIError", status |-> 403]
NotFound == [cls |-> "SpreadsheetNotFound", status |-> 404]
Transient == [cls |-> "ConnectionError", status |-> 0]
NoException == [cls |-> "None", status |-> 0]

RetryableErrors == {QuotaExceeded, Transient}
FatalErrors == {Unauthorized, Forbidden, NotFound}
Errors == RetryableErrors \cup FatalErrors

\* the classes an exception is an instance of; "except Exception" catches
\* every one of them
Mro(cls) ==
    CASE cls = "APIError" ->
             {"APIError", "GSpreadException", "Exception", "BaseException"}
      [] cls = "SpreadsheetNotFound" ->
             {"SpreadsheetNotFound", "GSpreadException", "Exception",
              "BaseException"}
      [] cls = "ConnectionError" ->
             {"ConnectionError", "OSError", "Exception", "BaseException"}
      [] cls = "WorksheetNotFound" ->
             {"WorksheetNotFound", "GSpreadException", "Exception",
              "BaseException"}
      [] cls = "KeyError" ->
             {"KeyError", "LookupError", "Exception", "BaseException"}
      [] OTHER -> {}

IsInstance(e, exc_type) == exc_type \in Mro(e.cls)

\* the default of the parameter retry_exceptions, which no caller overrides
retry_exceptions == {"Exception"}

\* '"429" in error_str or "RESOURCE_EXHAUSTED" in error_str'
Mentions429(e) == e.status = 429

\* lines 112-120: should_retry
ShouldRetry(e) ==
    \/ Mentions429(e)
    \/ \E exc_type \in retry_exceptions : IsInstance(e, exc_type)

\* "delay *= backoff_factor"
NextDelayFlat(d, factor) == d
NextDelay(d, factor) == (d * factor[1]) \div factor[2]

\* "attempt == max_retries"
LastAttemptLate(a, retries) == a = retries + 1
LastAttempt(a, retries) == a = retries

\* the bare "raise" of line 126 raises the caught exception itself
Reraise(e) == e

LogRecord(level, line, n, d) ==
    [level |-> level, line |-> line, n |-> n, delay |-> d]

RetryInit ==
    /\ max_retries \in 0..MaxRetries
    /\ initial_delay \in InitialDelays
    /\ backoff_factor \in BackoffFactors
    /\ r_pc = "loop"
    /\ attempt = 0
    /\ delay = initial_delay
    /\ last_exception = NoException
    /\ tries = 0
    /\ slept = <<>>
    /\ outcome = [kind |-> "none", value |-> "", error |-> NoException]
    /\ op_value = ""
    /\ log = <<>>

\* the state of retry_with_backoff in the specifications of other components
RetryIdle ==
    /\ max_retries = 0
    /\ initial_delay = 0
    /\ backoff_factor = <<1, 1>>
    /\ r_pc = "off"
    /\ attempt = 0
    /\ delay = 0
    /\ last_exception = NoException
    /\ tries = 0
    /\ slept = <<>>
    /\ outcome = [kind |-> "none", value |-> "", error |-> NoException]
    /\ op_value = ""
    /\ log = <<>>

\* lines 99-104: an iteration starts; from the second one on it logs a
\* warning, sleeps for delay (at least) and multiplies delay
BeginAttempt(over) ==
    /\ r_pc = "loop"
    /\ IF attempt > 0
       THEN /\ log' = Append(log, LogRecord("warning", 102, attempt, delay))
            /\ slept' = Append(slept, delay + over)
            /\ delay' = NextDelay(delay, backoff_factor)
       ELSE UNCHANGED <<log, slept, delay>>
    /\ r_pc' = "call"
    /\ UNCHANGED <<max_retries, initial_delay, backoff_factor, attempt,
                   last_exception, tries, outcome, op_value>>
    /\ UNCHANGED retry_frame

\* line 106: the wrapped operation returns v
OperationReturns(v) ==
    /\ r_pc = "call"
    /\ tries' = tries + 1
    /\ op_value' = v
    /\ outcome' = [kind |-> "returned", value |-> v, error |-> NoException]
    /\ r_pc' = "done"
    /\ UNCHANGED <<max_retries, initial_delay, backoff_factor, attempt, delay,
                   last_exception, slept, log>>
    /\ UNCHANGED retry_frame

\* lines 106-129: the wrapped operation raises e
OperationRaises(e) ==
    /\ r_pc = "call"
    /\ tries' = tries + 1
    /\ last_exception' = e
    /\ LET should_retry == ShouldRetry(e)
           log429 == IF Mentions429(e)
                     THEN Append(log, LogRecord("warning", 117, attempt, 0))
                     ELSE log
       IN  IF ~should_retry \/ LastAttempt(attempt, max_retries)
           THEN /\ log' = IF attempt > 0
                          THEN Append(log429,
                                      LogRecord("error", 125, attempt + 1, 0))
                          ELSE log429
                /\ outcome' = [kind |-> "raised", value |-> "",
                               error |-> Reraise(e)]
                /\ r_pc' = "done"
                /\ UNCHANGED attempt
           ELSE IF attempt + 1 <= max_retries
           THEN /\ log' = log429
                /\ attempt' = attempt + 1
                /\ r_pc' = "loop"
                /\ UNCHANGED outcome
           ELSE \* line 129, after the loop
                /\ log' = log429
                /\ outcome' = [kind |-> "raised", value |-> "", error |-> e]
                /\ r_pc' = "done"
                /\ UNCHANGED attempt
    /\ UNCHANGED <<max_retries, initial_delay, backoff_factor, delay, slept,
                   op_value>>
    /\ UNCHANGED retry_frame

RetryNext ==
    \/ \E over \in Oversleep : BeginAttempt(over)
    \/ \E v \in Values : OperationReturns(v)
    \/ \E e \in Errors : OperationRaises(e)

(***************************************************************************)
(* CacheManager                                                            *)
(***************************************************************************)
\* operations of CacheManager called in one behaviour
MaxCacheOps == 3
\* the clock stops here
MaxClock == 2100
\* default_ttl of the global cache_manager, in seconds
DefaultTTL == 1800
\* time that passes between two operations
ClockSteps == {300, 1500}
\* the key strings, as sequences of characters
Keys == {<<"a">>, <<"a", "b">>}
\* what invalidate_pattern is called with
Patterns == {<<"a">>, <<"b">>}
\* keys of st.session_state that other parts of the application own
OtherSessionKeys == {<<"u", "s", "e", "r">>}
\* the Optional[int] argument ttl: None stands for an omitted ttl
None == -1
TTLs == {None, 0, 300}
NoneValue == "None"

CachePrefix == <<"c", "a", "c", "h", "e", "_">>

\* f"cache_{key}"
CacheKey(key) == CachePrefix \o key

\* str.startswith
StartsWith(str, prefix) ==
    /\ Len(str) >= Len(prefix)
    /\ SubSeq(str, 1, Len(prefix)) = prefix

\* "pattern in key" of two strings
Contains(str, sub) ==
    \E i \in 0..(Len(str) - Len(sub)) : SubSeq(str, i + 1, i + Len(sub)) = sub

\* 'key.startswith("cache_")'
IsCacheKey(k) == StartsWith(k, CachePrefix)

\* "del st.session_state[key]" for each key of ks
Without(state, ks) == [k \in (DOMAIN state) \ ks |-> state[k]]

\* "st.session_state[key] = data"
With(state, key, data) ==
    [k \in (DOMAIN state) \cup {key} |-> IF k = key THEN data ELSE state[k]]

\* "ttl = ttl or self.default_ttl"
TtlOrDefault(ttl) == IF ttl = None \/ ttl = 0 THEN DefaultTTL ELSE ttl

\* "expiration and datetime.now() > expiration"
ExpiredNever(data, t) == FALSE
Expired(data, t) == t > data.expiration

\* lines 71-76: cache_data
CacheData(value, ttl, t) ==
    [value |-> value, created |-> t, expiration |-> t + ttl, ttl |-> ttl]

\* the value of a session key that is not a cache entry
SessionValue == [value |-> "session", created |-> 0, expiration |-> 0, ttl |-> 0]

\* 'len([k for k in st.session_state.keys() if k.startswith("cache_")])'
CurrentSize(state) == Cardinality({k \in DOMAIN state : IsCacheKey(k)})

\* f"{hit_rate:.1f}%" of hits / total * 100, in tenths of a percent,
\* rounded half to even
HitRate(hits, total) ==
    IF total > 0
    THEN LET q == (hits * 1000) \div total
             r == (hits * 1000) % total
         IN  IF 2 * r > total \/ (2 * r = total /\ q % 2 = 1) THEN q + 1 ELSE q
    ELSE 0

Bump(stats, field, n) == [stats EXCEPT ![field] = @ + n]

\* what an operation returned: a value (None, True and False by name), a
\* count or the dictionary of get_stats, and what it logged
NoStats == [total_requests |-> 0, hits |-> 0, misses |-> 0,
            invalidations |-> 0, hit_rate |-> 0, current_size |-> 0]
Ret(op, key, value, count, message) ==
    [op |-> op, key |-> key, value |-> value, count |-> count,
     stats |-> NoStats, log |-> message]

CacheInit ==
    /\ clock = 0
    /\ session_state = [k \in OtherSessionKeys |-> SessionValue]
    /\ cache_stats = [hits |-> 0, misses |-> 0, invalidations |-> 0,
                      total_requests |-> 0]
    /\ cache_ret = Ret("none", <<>>, NoneValue, 0, "")
    /\ cache_ops = 0

CacheCall ==
    /\ cache_ops < MaxCacheOps
    /\ cache_ops' = cache_ops + 1

\* time passes
Tick(d) ==
    /\ clock + d <= MaxClock
    /\ clock' = clock + d
    /\ UNCHANGED <<session_state, cache_stats, cache_ret, cache_ops>>
    /\ UNCHANGED cache_frame

\* CacheManager.get(key)
CacheGet(key) ==
    /\ CacheCall
    /\ LET cache_key == CacheKey(key)
           counted1 == Bump(cache_stats, "total_requests", 1)
       IN  IF cache_key \in DOMAIN session_state
           THEN LET cache_data == session_state[cache_key]
                IN  IF Expired(cache_data, clock)
                    THEN /\ session_state' = Without(session_state, {cache_key})
                         /\ cache_stats' = Bump(counted1, "misses", 1)
                         /\ cache_ret' = Ret("get", key, NoneValue, 0,
                                             "Cache expirado")
                    ELSE /\ cache_stats' = Bump(counted1, "hits", 1)
                         /\ cache_ret' = Ret("get", key, cache_data.value, 0,
                                             "Cache hit")
                         /\ UNCHANGED session_state
           ELSE /\ cache_stats' = Bump(counted1, "misses", 1)
                /\ cache_ret' = Ret("get", key, NoneValue, 0, "Cache miss")
                /\ UNCHANGED session_state
    /\ UNCHANGED clock
    /\ UNCHANGED cache_frame

\* CacheManager.set(key, value, ttl)
CacheSet(key, value, ttl) ==
    /\ CacheCall
    /\ session_state' = With(session_state, CacheKey(key),
                             CacheData(value, TtlOrDefault(ttl), clock))
    /\ cache_ret' = Ret("set", key, NoneValue, 0, "Cache set")
    /\ UNCHANGED <<clock, cache_stats>>
    /\ UNCHANGED cache_frame

\* CacheManager.invalidate(key)
Invalidate(key) ==
    /\ CacheCall
    /\ IF CacheKey(key) \in DOMAIN session_state
       THEN /\ session_state' = Without(session_state, {CacheKey(key)})
            /\ cache_stats' = Bump(cache_stats, "invalidations", 1)
            /\ cache_ret' = Ret("invalidate", key, "True", 0,
                                "Cache invalidado")
       ELSE /\ cache_ret' = Ret("invalidate", key, "False", 0, "")
            /\ UNCHANGED <<session_state, cache_stats>>
    /\ UNCHANGED clock
    /\ UNCHANGED cache_frame

\* CacheManager.invalidate_pattern(pattern)
InvalidatePattern(pattern) ==
    /\ CacheCall
    /\ LET keys_to_remove == {k \in DOMAIN session_state :
                                  IsCacheKey(k) /\ Contains(k, pattern)}
       IN  /\ session_state' = Without(session_state, keys_to_remove)
           /\ cache_stats' = Bump(cache_stats, "invalidations",
                                  Cardinality(keys_to_remove))
           /\ cache_ret' = Ret("invalidate_pattern", pattern, NoneValue,
                               Cardinality(keys_to_remove),
                               "Cache invalidado para patron")
    /\ UNCHANGED clock
    /\ UNCHANGED cache_frame

\* CacheManager.clear_all()
ClearAll ==
    /\ CacheCall
    /\ LET keys_to_remove == {k \in DOMAIN session_state : IsCacheKey(k)}
       IN  /\ session_state' = Without(session_state, keys_to_remove)
           /\ cache_stats' = Bump(cache_stats, "invalidations",
                                  Cardinality(keys_to_remove))
    /\ cache_ret' = Ret("clear_all", <<>>, NoneValue, 0,
                        "Cache limpiado completamente")
    /\ UNCHANGED clock
    /\ UNCHANGED cache_frame

\* CacheManager.get_stats()
GetStats ==
    /\ CacheCall
    /\ cache_ret' =
          [Ret("get_stats", <<>>, NoneValue, 0, "") EXCEPT
              !.stats = [total_requests |-> cache_stats.total_requests,
                         hits |-> cache_stats.hits,
                         misses |-> cache_stats.misses,
                         invalidations |-> cache_stats.invalidations,
                         hit_rate |-> HitRate(cache_stats.hits,
                                              cache_stats.total_requests),
                         current_size |-> CurrentSize(session_state)]]
    /\ UNCHANGED <<clock, session_state, cache_stats>>
    /\ UNCHANGED cache_frame

\* CacheManager.cleanup_expired()
CleanupExpired ==
    /\ CacheCall
    /\ LET expired_keys == {k \in DOMAIN session_state :
                                IsCacheKey(k) /\ Expired(session_state[k], clock)}
       IN  /\ session_state' = Without(session_state, expired_keys)
           /\ cache_ret' = Ret("cleanup_expired", <<>>, NoneValue,
                               Cardinality(expired_keys),
                               IF expired_keys # {}
                               THEN "Limpieza de cache" ELSE "")
    /\ UNCHANGED <<clock, cache_stats>>
    /\ UNCHANGED cache_frame

CacheNext ==
    \/ \E d \in ClockSteps : Tick(d)
    \/ \E key \in Keys : CacheGet(key)
    \/ \E key \in Keys, value \in Values, ttl \in TTLs : CacheSet(key, value, ttl)
    \/ \E key \in Keys : Invalidate(key)
    \/ \E pattern \in Patterns : InvalidatePattern(pattern)
    \/ ClearAll
    \/ GetStats
    \/ CleanupExpired

(***************************************************************************)
(* CacheManager called by several threads: the same methods, one step per  *)
(* access to st.session_state or to a counter of _cache_stats              *)
(***************************************************************************)
\* operations started by the threads in one behaviour
MaxRaceOps == 3

NoCall == [op |-> "none", key |-> <<>>, value |-> NoneValue, ttl |-> None,
           n |-> 0]
NoResult == [status |-> "none", value |-> NoneValue, count |-> 0]
Returns(v, n) == [status |-> "returned", value |-> v, count |-> n]
KeyError == [status |-> "raised", value |-> "KeyError", count |-> 0]

RaceInit ==
    /\ c_pc = [t \in Threads |-> "idle"]
    /\ c_call = [t \in Threads |-> NoCall]
    /\ c_local = [t \in Threads |-> SessionValue]
    /\ c_loaded = [t \in Threads |-> 0]
    /\ c_half = [t \in Threads |-> FALSE]
    /\ c_todo = [t \in Threads |-> {}]
    /\ c_result = [t \in Threads |-> NoResult]
    /\ gets_called = 0
    /\ race_ops = 0

\* the state of CacheManager in the specifications of other components
CacheIdle == CacheInit /\ RaceInit

\* a thread calls a method of the cache
Start(t, call, first) ==
    /\ c_pc[t] \in {"idle", "done"}
    /\ race_ops < MaxRaceOps
    /\ race_ops' = race_ops + 1
    /\ c_call' = [c_call EXCEPT ![t] = call]
    /\ c_pc' = [c_pc EXCEPT ![t] = first]
    /\ c_result' = [c_result EXCEPT ![t] = NoResult]
    /\ gets_called' = IF call.op = "get" THEN gets_called + 1 ELSE gets_called
    /\ UNCHANGED <<clock, session_state, cache_stats, c_local, c_loaded,
                   c_half, c_todo>>
    /\ UNCHANGED race_frame

StartGet(t, key) ==
    Start(t, [NoCall EXCEPT !.op = "get", !.key = key], "get_total")

StartSet(t, key, value, ttl) ==
    Start(t, [NoCall EXCEPT !.op = "set", !.key = key, !.value = value,
                            !.ttl = ttl], "set_store")

StartInvalidate(t, key) ==
    Start(t, [NoCall EXCEPT !.op = "invalidate", !.key = key], "inv_in")

StartInvalidatePattern(t, pattern) ==
    Start(t, [NoCall EXCEPT !.op = "invalidate_pattern", !.key = pattern],
          "pat_scan")

StartClearAll(t) ==
    Start(t, [NoCall EXCEPT !.op = "clear_all"], "clr_scan")

\* the operation of a thread ends
Finish(t, result) ==
    /\ c_pc' = [c_pc EXCEPT ![t] = "done"]
    /\ c_result' = [c_result EXCEPT ![t] = result]

Goto(t, next) ==
    /\ c_pc' = [c_pc EXCEPT ![t] = next]
    /\ UNCHANGED c_result

\* the statements '_cache_stats[field] += n'
IncSites == {"get_total", "get_miss", "get_expired", "get_hit", "inv_count",
             "pat_count", "clr_count"}

IncField(site) ==
    CASE site = "get_total" -> "total_requests"
      [] site \in {"get_miss", "get_expired"} -> "misses"
      [] site = "get_hit" -> "hits"
      [] OTHER -> "invalidations"

\* the read of '+= n'
IncLoadStat(t) ==
    /\ c_pc[t] \in IncSites
    /\ ~c_half[t]
    /\ c_loaded' = [c_loaded EXCEPT ![t] = cache_stats[IncField(c_pc[t])]]
    /\ c_half' = [c_half EXCEPT ![t] = TRUE]
    /\ UNCHANGED <<clock, session_state, cache_stats, c_pc, c_call, c_local,
                   c_todo, c_result, gets_called, race_ops>>
    /\ UNCHANGED race_frame

\* the write of '+= n', and what the method does next
IncStoreStat(t) ==
    /\ c_pc[t] \in IncSites
    /\ c_half[t]
    /\ LET site == c_pc[t]
           n == IF site = "clr_count" THEN c_loaded[t] + c_call[t].n
                ELSE c_loaded[t] + 1
       IN  /\ cache_stats' = [cache_stats EXCEPT ![IncField(site)] = n]
           /\ CASE site = "get_total" -> Goto(t, "get_in")
                [] site \in {"get_miss", "get_expired"} ->
                       Finish(t, Returns(NoneValue, 0))
                [] site = "get_hit" -> Finish(t, Returns(c_local[t].value, 0))
                [] site = "inv_count" -> Finish(t, Returns("True", 0))
                [] site = "pat_count" ->
                       IF c_todo[t] = {}
                       THEN Finish(t, Returns(NoneValue, c_call[t].n))
                       ELSE Goto(t, "pat_del")
                [] site = "clr_count" -> Finish(t, Returns(NoneValue, 0))
    /\ c_half' = [c_half EXCEPT ![t] = FALSE]
    /\ UNCHANGED <<clock, session_state, c_call, c_local, c_loaded, c_todo,
                   gets_called, race_ops>>
    /\ UNCHANGED race_frame

\* get, line 37: "if cache_key in st.session_state"
GetIn(t) ==
    /\ c_pc[t] = "get_in"
    /\ IF CacheKey(c_call[t].key) \in DOMAIN session_state
       THEN Goto(t, "get_read")
       ELSE Goto(t, "get_miss")
    /\ UNCHANGED <<clock, session_state, cache_stats, c_call, c_local,
                   c_loaded, c_half, c_todo, gets_called, race_ops>>
    /\ UNCHANGED race_frame

\* get, line 38: "cache_data = st.session_state[cache_key]"
GetRead(t) ==
    /\ c_pc[t] = "get_read"
    /\ LET cache_key == CacheKey(c_call[t].key)
       IN  IF cache_key \in DOMAIN session_state
           THEN /\ c_local' = [c_local EXCEPT ![t] = session_state[cache_key]]
                /\ Goto(t, "get_check")
           ELSE /\ Finish(t, KeyError)
                /\ UNCHANGED c_local
    /\ UNCHANGED <<clock, session_state, cache_stats, c_call, c_loaded,
                   c_half, c_todo, gets_called, race_ops>>
    /\ UNCHANGED race_frame

\* get, lines 41-42: the expiration test
GetCheck(t) ==
    /\ c_pc[t] = "get_check"
    /\ IF Expired(c_local[t], clock)
       THEN Goto(t, "get_del")
       ELSE Goto(t, "get_hit")
    /\ UNCHANGED <<clock, session_state, cache_stats, c_call, c_local,
                   c_loaded, c_half, c_todo, gets_called, race_ops>>
    /\ UNCHANGED race_frame

\* "del st.session_state[key]" by thread t, then next; KeyError if absent
Delete(t, key, next) ==
    IF key \in DOMAIN session_state
    THEN /\ session_state' = Without(session_state, {key})
         /\ Goto(t, next)
    ELSE /\ Finish(t, KeyError)
         /\ UNCHANGED session_state

\* get, line 44: "del st.session_state[cache_key]"
GetDel(t) ==
    /\ c_pc[t] = "get_del"
    /\ Delete(t, CacheKey(c_call[t].key), "get_expired")
    /\ UNCHANGED <<clock, cache_stats, c_call, c_local, c_loaded, c_half,
                   c_todo, gets_called, race_ops>>
    /\ UNCHANGED race_frame

\* set, lines 68-78
SetStore(t) ==
    /\ c_pc[t] = "set_store"
    /\ session_state' = With(session_state, CacheKey(c_call[t].key),
                             CacheData(c_call[t].value,
                                       TtlOrDefault(c_call[t].ttl), clock))
    /\ Finish(t, Returns(NoneValue, 0))
    /\ UNCHANGED <<clock, cache_stats, c_call, c_local, c_loaded, c_half,
                   c_todo, gets_called, race_ops>>
    /\ UNCHANGED race_frame

\* invalidate, line 90: "if cache_key in st.session_state"
InvIn(t) ==
    /\ c_pc[t] = "inv_in"
    /\ IF CacheKey(c_call[t].key) \in DOMAIN session_state
       THEN Goto(t, "inv_del")
       ELSE Finish(t, Returns("False", 0))
    /\ UNCHANGED <<clock, session_state, cache_stats, c_call, c_local,
                   c_loaded, c_half, c_todo, gets_called, race_ops>>
    /\ UNCHANGED race_frame

\* invalidate, line 91: "del st.session_state[cache_key]"
InvDel(t) ==
    /\ c_pc[t] = "inv_del"
    /\ Delete(t, CacheKey(c_call[t].key), "inv_count")
    /\ UNCHANGED <<clock, cache_stats, c_call, c_local, c_loaded, c_half,
                   c_todo, gets_called, race_ops>>
    /\ UNCHANGED race_frame

\* invalidate_pattern, lines 105-109, and clear_all, line 120: keys_to_remove;
\* its length is kept in the call record
Scan(t) ==
    /\ c_pc[t] \in {"pat_scan", "clr_scan"}
    /\ LET keys_to_remove ==
               {k \in DOMAIN session_state :
                   /\ IsCacheKey(k)
                   /\ c_pc[t] = "pat_scan" => Contains(k, c_call[t].key)}
       IN  /\ c_todo' = [c_todo EXCEPT ![t] = keys_to_remove]
           /\ c_call' = [c_call EXCEPT ![t].n = Cardinality(keys_to_remove)]
           /\ IF c_pc[t] = "pat_scan"
              THEN IF keys_to_remove = {}
                   THEN Finish(t, Returns(NoneValue, 0))
                   ELSE Goto(t, "pat_del")
              ELSE IF keys_to_remove = {}
                   THEN Goto(t, "clr_count")
                   ELSE Goto(t, "clr_del")
    /\ UNCHANGED <<clock, session_state, cache_stats, c_local, c_loaded,
                   c_half, gets_called, race_ops>>
    /\ UNCHANGED race_frame

\* invalidate_pattern, line 112, and clear_all, line 123: the next key of
\* keys_to_remove is deleted
LoopDel(t) ==
    /\ c_pc[t] \in {"pat_del", "clr_del"}
    /\ \E k \in c_todo[t] :
          /\ c_todo' = [c_todo EXCEPT ![t] = @ \ {k}]
          /\ Delete(t, k, IF c_pc[t] = "pat_del" THEN "pat_count"
                          ELSE IF c_todo[t] = {k} THEN "clr_count"
                          ELSE "clr_del")
    /\ UNCHANGED <<clock, cache_stats, c_call, c_local, c_loaded, c_half,
                   gets_called, race_ops>>
    /\ UNCHANGED race_frame

\* time passes while the threads run
RaceTick(d) ==
    /\ clock + d <= MaxClock
    /\ clock' = clock + d
    /\ UNCHANGED <<session_state, cache_stats, cache_ret, cache_ops>>
    /\ UNCHANGED cache_frame

RaceNext ==
    \/ RaceTick(DefaultTTL + 300)
    \/ \E t \in Threads :
        \/ \E key \in Keys : StartGet(t, key)
        \/ \E key \in Keys : StartSet(t, key, "v1", None)
        \/ \E key \in Keys : StartInvalidate(t, key)
        \/ \E pattern \in Patterns : StartInvalidatePattern(t, pattern)
        \/ StartClearAll(t)
        \/ IncLoadStat(t)
        \/ IncStoreStat(t)
        \/ GetIn(t)
        \/ GetRead(t)
        \/ GetCheck(t)
        \/ GetDel(t)
        \/ SetStore(t)
        \/ InvIn(t)
        \/ InvDel(t)
        \/ Scan(t)
        \/ LoopDel(t)

(***************************************************************************)
(* _load_courses_raw (src/utils/google_sheets.py, lines 172-273)           *)
(*                                                                         *)
(* A string is a sequence of characters, a row a sequence of cells and a   *)
(* grid (all_data) a sequence of rows.  Python indexes from 0 and TLA+     *)
(* from 1: all_data[i] of the code is all_data[i + 1] here.                *)
(***************************************************************************)
\* number of worksheets of the spreadsheet
MaxTabs == 3
\* the latest time of a call of _load_courses_raw
MaxParseTime == 1

\* "len(all_data) < 5"
MinRows == 5
\* "start_row = 4"
StartRow == 4
\* "end_row = min(24, len(all_data))"
EndRow == 24
\* "fecha_start_row = 1"
FechaStartRow == 1
\* "fecha_end_row = min(36, len(all_data))"
FechaEndRow == 36

Min(a, b) == IF a <= b THEN a ELSE b

UpperLetters ==
    <<"A", "B", "C", "D", "E", "F", "G", "H", "I", "J", "K", "L", "M",
      "N", "O", "P", "Q", "R", "S", "T", "U", "V", "W", "X", "Y", "Z",
      "I_acute">>
LowerLetters ==
    <<"a", "b", "c", "d", "e", "f", "g", "h", "i", "j", "k", "l", "m",
      "n", "o", "p", "q", "r", "s", "t", "u", "v", "w", "x", "y", "z",
      "i_acute">>

\* str.lower() and str.upper(); "i_acute" stands for the letter i with an
\* acute accent of "dia"
LowerChar(c) ==
    IF \E i \in DOMAIN UpperLetters : UpperLetters[i] = c
    THEN LowerLetters[CHOOSE i \in DOMAIN UpperLetters : UpperLetters[i] = c]
    ELSE c
UpperChar(c) ==
    IF \E i \in DOMAIN LowerLetters : LowerLetters[i] = c
    THEN UpperLetters[CHOOSE i \in DOMAIN LowerLetters : LowerLetters[i] = c]
    ELSE c
Lower(s) == [i \in DOMAIN s |-> LowerChar(s[i])]
Upper(s) == [i \in DOMAIN s |-> UpperChar(s[i])]

\* str.strip(): without the blanks at both ends
Strip(s) ==
    LET inked == {i \in DOMAIN s : s[i] # " "}
    IN  IF inked = {} THEN <<>>
        ELSE LET first == CHOOSE i \in inked : \A j \in inked : i <= j
                 last == CHOOSE i \in inked : \A j \in inked : j <= i
             IN  SubSeq(s, first, last)

\* the words of the code
MAILS == <<"M", "A", "I", "L", "S">>
CONFIG == <<"C", "O", "N", "F", "I", "G">>
NoAsignado == <<"N", "o", " ", "a", "s", "i", "g", "n", "a", "d", "o">>
NoEspecificada == <<"N", "o", " ", "e", "s", "p", "e", "c", "i", "f", "i",
                    "c", "a", "d", "a">>
NO_ESPECIFICADA == <<"N", "O", " ", "E", "S", "P", "E", "C", "I", "F", "I",
                     "C", "A", "D", "A">>
SinAsignatura == <<"S", "i", "n", " ", "a", "s", "i", "g", "n", "a", "t",
                   "u", "r", "a">>
SinFechas == <<"S", "i", "n", " ", "f", "e", "c", "h", "a", "s", " ", "p",
               "r", "o", "g", "r", "a", "m", "a", "d", "a", "s">>
\* '["nombre", "estudiante", "alumno"]'
StudentHeaders ==
    {<<"n", "o", "m", "b", "r", "e">>,
     <<"e", "s", "t", "u", "d", "i", "a", "n", "t", "e">>,
     <<"a", "l", "u", "m", "n", "o">>}
\* '["fecha", "clase", "dia"]'
FechaHeaders ==
    {<<"f", "e", "c", "h", "a">>,
     <<"c", "l", "a", "s", "e">>,
     <<"d", "i_acute", "a">>}

\* "all_data[i][1] if len(all_data[i]) > 1 else default", i counted from 0
SecondCell(all_data, i, default) ==
    IF Len(all_data) > i /\ Len(all_data[i + 1]) > 1
    THEN all_data[i + 1][2]
    ELSE default

\* "i < len(all_data) and all_data[i] and all_data[i][0].strip()"
HasFirstCell(all_data, i) ==
    /\ i < Len(all_data)
    /\ all_data[i + 1] # <<>>
    /\ Strip(all_data[i + 1][1]) # <<>>

\* the loops of lines 220-224 and 231-236: the stripped first cells of the
\* rows from to end_row - 1 that are not one of the headers
RECURSIVE Collect(_, _, _, _)
Collect(all_data, from, end_row, headers) ==
    IF from >= end_row THEN <<>>
    ELSE LET rest == Collect(all_data, from + 1, end_row, headers)
         IN  IF /\ HasFirstCell(all_data, from)
                /\ Lower(Strip(all_data[from + 1][1])) \notin headers
             THEN <<Strip(all_data[from + 1][1])>> \o rest
             ELSE rest

\* lines 216-224
Estudiantes(all_data) ==
    Collect(all_data, StartRow, Min(EndRow, Len(all_data)), StudentHeaders)

\* lines 227-236
Fechas(all_data) ==
    Collect(all_data, FechaStartRow, Min(FechaEndRow, Len(all_data)),
            FechaHeaders)

\* "datetime.now().isoformat()"
LastUpdatedNow(t) == t

\* lines 211-213 and 245-252: the value stored for a worksheet
Course(all_data, t) ==
    LET sede == SecondCell(all_data, 1, NoEspecificada)
        fechas == Fechas(all_data)
    IN  [profesor |-> SecondCell(all_data, 0, NoAsignado),
         sede |-> IF sede # <<>> THEN Upper(sede) ELSE NO_ESPECIFICADA,
         asignatura |-> SecondCell(all_data, 2, SinAsignatura),
         estudiantes |-> Estudiantes(all_data),
         fechas |-> IF fechas # <<>> THEN fechas ELSE <<SinFechas>>,
         last_updated |-> LastUpdatedNow(t)]

\* line 205: "not all_data or len(all_data) < 5"
TooShort(all_data) == all_data = <<>> \/ Len(all_data) < MinRows

\* line 198: the worksheets that are not courses
Skipped(sheet_name) == Upper(sheet_name) = MAILS \/ Upper(sheet_name) = CONFIG

\* cells
Blank == <<>>
Spaces == <<" ">>
Ana == <<"A", "n", "a">>
PaddedLuis == <<" ", "L", "u", "i", "s", " ">>
Fecha == <<"F", "e", "c", "h", "a">>
Estudiante == <<"E", "s", "t", "u", "d", "i", "a", "n", "t", "e">>
April6 == <<"0", "6", "/", "0", "4">>
SanPedro == <<"s", "a", "n", " ", "p", "e", "d", "r", "o">>

\* a grid with the cells of the first column given and head in the second
\* column of its first three rows
GridOf(head, first_column) ==
    [i \in DOMAIN first_column |->
        IF i <= Len(head) THEN <<first_column[i], head[i]>>
        ELSE <<first_column[i], Blank>>]

\* a roster of two students and one class date
FullGrid ==
    GridOf(<<Ana, SanPedro, Ana>>,
           <<Blank, Blank, Blank, Estudiante, Ana, PaddedLuis, April6>>)
\* a roster and no class date
RosterOnlyGrid ==
    GridOf(<<Ana, Blank, Ana>>, <<Blank, Blank, Blank, Estudiante, Ana>>)
\* no cell that the code takes for a class date
KeywordGrid ==
    GridOf(<<Ana, SanPedro>>, <<Blank, Blank, Blank, Blank, Fecha>>)
\* class dates and no roster
DatesOnlyGrid ==
    GridOf(<<Ana, SanPedro, Ana>>,
           <<Blank, April6, Blank, Estudiante, Spaces, Blank>>)
\* fewer than five rows
ShortGrid == GridOf(<<Ana>>, <<Blank, April6, Blank, Ana>>)
\* rows without cells
EmptyRowsGrid == <<<<>>, <<>>, <<>>, <<>>, <<>>, <<Ana>>>>
\* more rows than the code reads: a student in row 24 and a date in row 36
LongGrid ==
    GridOf(<<Ana, SanPedro, Ana>>,
           [i \in 1..(FechaEndRow + 1) |->
               IF i = StartRow + 1 THEN Ana
               ELSE IF i = EndRow + 1 THEN PaddedLuis
               ELSE IF i = FechaEndRow + 1 THEN April6
               ELSE Blank])

Grids == {FullGrid, RosterOnlyGrid, KeywordGrid, DatesOnlyGrid, ShortGrid,
          EmptyRowsGrid, LongGrid, <<>>}

\* worksheet.title of the worksheets of courses and of the other ones
CourseTitles == {<<"A", "1">>, <<"B", "2">>}
OtherTitles == {<<"M", "a", "i", "l", "s">>, CONFIG}

\* what worksheet.get_all_values() does: it returns all_data or raises
Worksheets ==
    [title : CourseTitles, all_data : Grids, get_all_values : {NoException}]
    \cup [title : CourseTitles, all_data : {FullGrid},
          get_all_values : {QuotaExceeded}]
    \cup [title : OtherTitles, all_data : {FullGrid},
          get_all_values : {NoException}]

\* the spreadsheets: the titles of the worksheets of one differ
Workbooks ==
    {w \in UNION {[1..n -> Worksheets] : n \in 0..MaxTabs} :
        \A i, j \in DOMAIN w : i # j => w[i].title # w[j].title}

\* the grids of a worksheet laid out by its markers: "FECHAS" in row top
\* of the first column, d class dates under it, "NOMBRES ESTUDIANTES" and
\* s students under it; the rows before the marker hold the metadata in
\* their second column and nothing in their first
MaxDates == 7
MaxRoster == 5
Digits == <<"0", "1", "2", "3", "4", "5", "6", "7", "8", "9">>
FECHAS == <<"F", "E", "C", "H", "A", "S">>
NOMBRES_ESTUDIANTES ==
    <<"N", "O", "M", "B", "R", "E", "S", " ", "E", "S", "T", "U", "D", "I",
      "A", "N", "T", "E", "S">>
DateCell(i) == <<"0", Digits[i + 1], "/", "0", "4">>
StudentCell(i) == <<"A", "n", "a", " ", Digits[i + 1]>>
DateCells(d) == [i \in 1..d |-> DateCell(i)]
StudentCells(s) == [i \in 1..s |-> StudentCell(i)]
LandmarkGrid(top, d, s) ==
    GridOf(<<Ana, SanPedro, Ana>>,
           [i \in 1..top |-> Blank] \o <<FECHAS>> \o DateCells(d)
               \o <<NOMBRES_ESTUDIANTES>> \o StudentCells(s))
\* the rows of the marker "FECHAS", counted from 0
MarkerRows == {0, 3}
LandmarkGrids ==
    {LandmarkGrid(top, d, s) :
        top \in MarkerRows, d \in {0, 1, MaxDates}, s \in {0, 1, MaxRoster}}

\* the spreadsheets of at most two worksheets, one of them laid out by
\* its markers
LandmarkWorksheets ==
    [title : {<<"A", "1">>}, all_data : LandmarkGrids,
     get_all_values : {NoException}]
    \cup [title : {<<"B", "2">>}, all_data : {DatesOnlyGrid, ShortGrid},
          get_all_values : {NoException}]
    \cup [title : {<<"B", "2">>}, all_data : {FullGrid},
          get_all_values : {QuotaExceeded}]
    \cup [title : {CONFIG}, all_data : {FullGrid},
          get_all_values : {NoException}]
LandmarkWorkbooks ==
    {w \in UNION {[1..n -> LandmarkWorksheets] : n \in 0..2} :
        \A i, j \in DOMAIN w : i # j => w[i].title # w[j].title}

\* what client.open_by_key() and spreadsheet.worksheets() do
OpenErrors == {NoException, Unauthorized, NotFound}

NoCourses == <<>>

ParseInit ==
    /\ workbook \in Workbooks
    /\ parse_time = 0
    /\ parse_pc = "idle"
    /\ worksheet_index = 0
    /\ courses = NoCourses
    /\ successful_sheets = 0
    /\ failed_sheets = 0
    /\ parse_result = NoCourses
    /\ previous_result = NoCourses
    /\ parse_runs = 0

\* the call on a spreadsheet with a worksheet laid out by its markers
LandmarkInit ==
    /\ workbook \in LandmarkWorkbooks
    /\ parse_time = 0
    /\ parse_pc = "idle"
    /\ worksheet_index = 0
    /\ courses = NoCourses
    /\ successful_sheets = 0
    /\ failed_sheets = 0
    /\ parse_result = NoCourses
    /\ previous_result = NoCourses
    /\ parse_runs = 0

ParseIdle ==
    /\ workbook = <<>>
    /\ parse_time = 0
    /\ parse_pc = "off"
    /\ worksheet_index = 0
    /\ courses = NoCourses
    /\ successful_sheets = 0
    /\ failed_sheets = 0
    /\ parse_result = NoCourses
    /\ previous_result = NoCourses
    /\ parse_runs = 0

\* line 172: the function is called, d after the call before
LoadCoursesRaw(d) ==
    /\ parse_pc = "idle"
    /\ parse_runs < 2
    /\ parse_time + d <= MaxParseTime
    /\ parse_time' = parse_time + d
    /\ parse_pc' = "open"
    /\ worksheet_index' = 0
    /\ courses' = NoCourses
    /\ successful_sheets' = 0
    /\ failed_sheets' = 0
    /\ UNCHANGED <<workbook, parse_result, previous_result, parse_runs>>
    /\ UNCHANGED parse_frame

\* the function returns value
ParseReturn(value) ==
    /\ parse_pc' = "idle"
    /\ parse_result' = value
    /\ previous_result' = parse_result
    /\ parse_runs' = parse_runs + 1

\* lines 182-184 raise: lines 265-273 return {}
OpenFails(e) ==
    /\ parse_pc = "open"
    /\ e # NoException
    /\ ParseReturn(NoCourses)
    /\ UNCHANGED <<workbook, parse_time, worksheet_index, courses,
                   successful_sheets, failed_sheets>>
    /\ UNCHANGED parse_frame

\* lines 182-192: the spreadsheet opens; without worksheets line 188
\* returns {}
Open ==
    /\ parse_pc = "open"
    /\ IF workbook = <<>>
       THEN /\ ParseReturn(NoCourses)
            /\ UNCHANGED worksheet_index
       ELSE /\ parse_pc' = "loop"
            /\ worksheet_index' = 1
            /\ UNCHANGED <<parse_result, previous_result, parse_runs>>
    /\ UNCHANGED <<workbook, parse_time, courses, successful_sheets,
                   failed_sheets>>
    /\ UNCHANGED parse_frame

\* the worksheet of the iteration
AtWorksheet ==
    /\ parse_pc = "loop"
    /\ worksheet_index <= Len(workbook)

\* "continue", after n more failures
Continue(n) ==
    /\ worksheet_index' = worksheet_index + 1
    /\ failed_sheets' = failed_sheets + n
    /\ UNCHANGED <<workbook, parse_time, parse_pc, courses,
                   successful_sheets, parse_result, previous_result,
                   parse_runs>>
    /\ UNCHANGED parse_frame

\* lines 198-199
SkipWorksheet ==
    /\ AtWorksheet
    /\ Skipped(workbook[worksheet_index].title)
    /\ Continue(0)

\* a failure of one worksheet that ends the whole call
ReadFailsAborts ==
    /\ AtWorksheet
    /\ ~Skipped(workbook[worksheet_index].title)
    /\ workbook[worksheet_index].get_all_values # NoException
    /\ ParseReturn(NoCourses)
    /\ UNCHANGED <<workbook, parse_time, worksheet_index, courses,
                   successful_sheets, failed_sheets>>
    /\ UNCHANGED parse_frame

\* line 203 raises: lines 257-260
ReadFails ==
    /\ AtWorksheet
    /\ ~Skipped(workbook[worksheet_index].title)
    /\ workbook[worksheet_index].get_all_values # NoException
    /\ Continue(1)

\* the worksheet was read
WorksheetRead ==
    /\ AtWorksheet
    /\ ~Skipped(workbook[worksheet_index].title)
    /\ workbook[worksheet_index].get_all_values = NoException

\* lines 205-208
FormatFails ==
    /\ WorksheetRead
    /\ TooShort(workbook[worksheet_index].all_data)
    /\ Continue(1)

\* lines 239-242
NoStudents ==
    /\ WorksheetRead
    /\ ~TooShort(workbook[worksheet_index].all_data)
    /\ Estudiantes(workbook[worksheet_index].all_data) = <<>>
    /\ Continue(1)

\* lines 245-255
StoreCourse ==
    /\ WorksheetRead
    /\ ~TooShort(workbook[worksheet_index].all_data)
    /\ Estudiantes(workbook[worksheet_index].all_data) # <<>>
    /\ courses' = With(courses, workbook[worksheet_index].title,
                       Course(workbook[worksheet_index].all_data,
                              parse_time))
    /\ successful_sheets' = successful_sheets + 1
    /\ worksheet_index' = worksheet_index + 1
    /\ UNCHANGED <<workbook, parse_time, parse_pc, failed_sheets,
                   parse_result, previous_result, parse_runs>>
    /\ UNCHANGED parse_frame

\* lines 262-263
ReturnCourses ==
    /\ parse_pc = "loop"
    /\ worksheet_index > Len(workbook)
    /\ ParseReturn(courses)
    /\ UNCHANGED <<workbook, parse_time, worksheet_index, courses,
                   successful_sheets, failed_sheets>>
    /\ UNCHANGED parse_frame

ParseNext ==
    \/ \E d \in 0..MaxParseTime : LoadCoursesRaw(d)
    \/ \E e \in OpenErrors : OpenFails(e)
    \/ Open
    \/ SkipWorksheet
    \/ ReadFails
    \/ FormatFails
    \/ NoStudents
    \/ StoreCourse
    \/ ReturnCourses

(***************************************************************************)
(* The public operations of GoogleSheetsManager and the exceptions of the  *)
(* remote client (src/utils/google_sheets.py, lines 136-166 and 405-853)   *)
(*                                                                         *)
(* A try statement is the sequence of its except clauses; a call that can  *)
(* raise is a point of an operation, with the try statements around it,    *)
(* the innermost first.                                                    *)
(***************************************************************************)
\* the exceptions that are not errors of the HTTP transport
WorksheetNotFound == [cls |-> "WorksheetNotFound", status |-> 404]
MissingSecret == [cls |-> "KeyError", status |-> 0]

\* what a call of the remote client can raise
TransportErrors == Errors \cup {WorksheetNotFound}
Exceptions == TransportErrors \cup {MissingSecret}

\* an except clause: the class it catches, what it does ("raise",
\* "return" or "continue") and the value its function then returns
Clause(catches, does, value) ==
    [catches |-> catches, does |-> does, value |-> value]

EmptyDict == "{}"
EmptyList == "[]"
EmptyPair == "({}, {})"

\* the except clauses of the try statements of the module, each under the
\* name of its function: lines 159-166 (both clauses of
\* _get_gsheets_client re-raise), 77-79 (rate_limited logs and re-raises),
\* 108-126 (retry_with_backoff re-raises once the retries are used up),
\* 437-440, 257-260 (the worksheet of a course), 265-273, 333-338 (the
\* worksheet of a ledger), 342-344, 365 (the clause goes on with the
\* search of lines 367-378), 400-402, 475-483, 512-514, 549-551, 583-585,
\* 614 (the clause goes on with the creation of the worksheet), 679-681,
\* 717-719, 773-775, 828-830 and 844-846, 841-842 (a bare except), 850-853
Except ==
    [_get_gsheets_client |->
         <<Clause("JSONDecodeError", "raise", ""),
           Clause("Exception", "raise", "")>>,
     rate_limited |-> <<Clause("Exception", "raise", "")>>,
     retry_with_backoff |-> <<Clause("Exception", "raise", "")>>,
     get_sheet_ids |-> <<Clause("KeyError", "return", EmptyDict)>>,
     course_sheet |-> <<Clause("Exception", "continue", "courses")>>,
     _load_courses_raw |->
         <<Clause("SpreadsheetNotFound", "return", EmptyDict),
           Clause("Exception", "return", EmptyDict)>>,
     attendance_sheet |->
         <<Clause("WorksheetNotFound", "continue", "asistencias"),
           Clause("Exception", "continue", "asistencias")>>,
     _load_attendance_raw |-> <<Clause("Exception", "return", EmptyDict)>>,
     mails_sheet |-> <<Clause("WorksheetNotFound", "continue", "emails")>>,
     _load_emails_raw |-> <<Clause("Exception", "return", EmptyPair)>>,
     load_courses |-> <<Clause("Exception", "return", EmptyDict)>>,
     load_courses_for_teacher |->
         <<Clause("Exception", "return", EmptyDict)>>,
     load_courses_by_sede |-> <<Clause("Exception", "return", EmptyDict)>>,
     load_attendance_for_course |->
         <<Clause("Exception", "return", EmptyDict)>>,
     course_tab |-> <<Clause("WorksheetNotFound", "continue", "True")>>,
     load_emails |-> <<Clause("Exception", "return", EmptyPair)>>,
     get_all_emails_by_sede |-> <<Clause("Exception", "return", EmptyList)>>,
     get_low_attendance_students |->
         <<Clause("Exception", "return", EmptyList)>>,
     test_sheet |-> <<Clause("Exception", "continue", "results")>>,
     test_mails |-> <<Clause("BaseException", "continue", "results")>>,
     test_connection |-> <<Clause("Exception", "return", "results")>>]

\* a save_attendance that catches nothing else
SaveAttendanceTryNarrow == <<Clause("WorksheetNotFound", "return", "False")>>
\* lines 661-663
SaveAttendanceTry == <<Clause("Exception", "return", "False")>>

\* lines 169-172, 276-279 and 347-350: the try statements around the body
\* of a decorated function, seen from a call of the function
Decorated(try) == <<try, Except.rate_limited, Except.retry_with_backoff>>

Point(step, chain) == [step |-> step, chain |-> chain]

\* lines 442-483: the calls of load_courses that can raise
LoadCoursesPoints ==
    {Point("get_sheet_ids", <<Except.get_sheet_ids, Except.load_courses>>),
     Point("_get_gsheets_client",
           <<Except._get_gsheets_client>> \o Decorated(Except._load_courses_raw) \o <<Except.load_courses>>),
     Point("open_by_key", Decorated(Except._load_courses_raw) \o <<Except.load_courses>>),
     Point("worksheets", Decorated(Except._load_courses_raw) \o <<Except.load_courses>>),
     Point("get_all_values",
           <<Except.course_sheet>> \o Decorated(Except._load_courses_raw) \o <<Except.load_courses>>)}

\* lines 553-585: the calls of load_attendance_for_course that can raise
AttendanceForCoursePoints ==
    {Point("get_sheet_ids", <<Except.get_sheet_ids, Except.load_attendance_for_course>>),
     Point("_get_gsheets_client",
           <<Except._get_gsheets_client>> \o Decorated(Except._load_attendance_raw)
               \o <<Except.load_attendance_for_course>>),
     Point("open_by_key",
           Decorated(Except._load_attendance_raw) \o <<Except.load_attendance_for_course>>),
     Point("worksheet",
           <<Except.attendance_sheet>> \o Decorated(Except._load_attendance_raw)
               \o <<Except.load_attendance_for_course>>),
     Point("get_all_records",
           <<Except.attendance_sheet>> \o Decorated(Except._load_attendance_raw)
               \o <<Except.load_attendance_for_course>>)}

\* lines 665-681: the calls of load_emails that can raise; the calls of
\* lines 367-369 are made by an except clause, outside its try
LoadEmailsPoints ==
    {Point("get_sheet_ids", <<Except.get_sheet_ids, Except.load_emails>>),
     Point("_get_gsheets_client",
           <<Except._get_gsheets_client>> \o Decorated(Except._load_emails_raw) \o <<Except.load_emails>>),
     Point("open_by_key", Decorated(Except._load_emails_raw) \o <<Except.load_emails>>),
     Point("worksheet",
           <<Except.mails_sheet>> \o Decorated(Except._load_emails_raw) \o <<Except.load_emails>>),
     Point("worksheets", Decorated(Except._load_emails_raw) \o <<Except.load_emails>>),
     Point("get_all_records", Decorated(Except._load_emails_raw) \o <<Except.load_emails>>)}

\* the points of an operation called inside the try statement of another
Within(points, try) ==
    {Point(p.step, p.chain \o <<try>>) : p \in points}

\* lines 516-551
BySedePoints ==
    Within(LoadCoursesPoints \cup AttendanceForCoursePoints, Except.load_courses_by_sede)

\* lines 587-663: the calls of save_attendance that can raise; lines
\* 617-626 are made by an except clause, outside its try
SaveAttendancePoints ==
    {Point("get_sheet_ids", <<Except.get_sheet_ids, SaveAttendanceTry>>),
     Point("_get_gsheets_client", <<Except._get_gsheets_client, SaveAttendanceTry>>),
     Point("open_by_key", <<SaveAttendanceTry>>),
     Point("worksheet", <<Except.course_tab, SaveAttendanceTry>>),
     Point("add_worksheet", <<SaveAttendanceTry>>),
     Point("append_row", <<SaveAttendanceTry>>),
     Point("append_rows", <<SaveAttendanceTry>>)}

\* lines 798-853
TestConnectionPoints ==
    {Point("_get_gsheets_client", <<Except._get_gsheets_client, Except.test_connection>>),
     Point("get_sheet_ids", <<Except.get_sheet_ids, Except.test_connection>>),
     Point("open_by_key", <<Except.test_sheet, Except.test_connection>>),
     Point("worksheets", <<Except.test_sheet, Except.test_connection>>),
     Point("worksheet",
           <<Except.test_mails, Except.test_sheet, Except.test_connection>>)}

Operations ==
    {"load_courses", "load_courses_for_teacher", "load_courses_by_sede",
     "load_attendance_for_course", "save_attendance", "load_emails",
     "get_all_emails_by_sede", "get_low_attendance_students",
     "test_connection"}

\* the calls that can raise in each public operation
Points(op) ==
    CASE op = "load_courses" -> LoadCoursesPoints
      [] op = "load_courses_for_teacher" ->
             Within(LoadCoursesPoints, Except.load_courses_for_teacher)
      [] op = "load_courses_by_sede" -> BySedePoints
      [] op = "load_attendance_for_course" -> AttendanceForCoursePoints
      [] op = "save_attendance" -> SaveAttendancePoints
      [] op = "load_emails" -> LoadEmailsPoints
      [] op = "get_all_emails_by_sede" ->
             Within(Within(LoadCoursesPoints, Except.load_courses_by_sede)
                        \cup LoadEmailsPoints, Except.get_all_emails_by_sede)
      [] op = "get_low_attendance_students" ->
             Within(BySedePoints \cup LoadEmailsPoints, Except.get_low_attendance_students)
      [] op = "test_connection" -> TestConnectionPoints

\* what the operation returns when nothing raises: found tells whether the
\* documents hold data
Success(op, found) ==
    CASE op \in {"load_courses", "load_courses_for_teacher",
                 "load_courses_by_sede", "load_attendance_for_course"} ->
             IF found THEN "data" ELSE EmptyDict
      [] op = "load_emails" -> IF found THEN "data" ELSE EmptyPair
      [] op \in {"get_all_emails_by_sede", "get_low_attendance_students"} ->
             IF found THEN "data" ELSE EmptyList
      [] op = "save_attendance" -> "True"
      [] op = "test_connection" -> "results"

NoOutcome == [kind |-> "none", value |-> "", error |-> NoException]

\* the first clause of a try statement that catches e, 0 when none does
Catching(e, try) ==
    LET matching == {i \in DOMAIN try : IsInstance(e, try[i].catches)}
    IN  IF matching = {} THEN 0
        ELSE CHOOSE i \in matching : \A j \in matching : i <= j

\* where an exception raised inside the try statements of chain ends: in
\* the first clause that catches it and does not re-raise it, with the
\* value that the function of the clause returns, or in the caller
RECURSIVE Propagate(_, _)
Propagate(e, chain) ==
    IF chain = <<>>
    THEN [kind |-> "raised", value |-> "", error |-> e]
    ELSE LET i == Catching(e, Head(chain))
         IN  IF i = 0 \/ Head(chain)[i].does = "raise"
             THEN Propagate(e, Tail(chain))
             ELSE [kind |-> "returned", value |-> Head(chain)[i].value,
                   error |-> e]

\* the try statement of retry_with_backoff in a chain: the one right after
\* that of rate_limited (lines 170-171, 277-278 and 348-349); 0 when the
\* call is not made inside a decorated function
RetryPosition(chain) ==
    LET decorated == {i \in 2..Len(chain) :
                         /\ chain[i - 1] = Except.rate_limited
                         /\ chain[i] = Except.retry_with_backoff}
    IN  IF decorated = {} THEN 0
        ELSE CHOOSE i \in decorated : \A j \in decorated : i <= j

\* lines 100-126: how many times retry_with_backoff runs the decorated
\* function when the call of the remote client raises e each time: once,
\* unless e comes out of the function and is one to retry
Attempts(e, chain) ==
    LET at == RetryPosition(chain)
    IN  IF /\ at > 0
           /\ Propagate(e, SubSeq(chain, 1, at - 1)).kind = "raised"
           /\ ShouldRetry(e)
        THEN MaxRetries + 1
        ELSE 1

FacadeCalls ==
    UNION {[op : {op}, point : Points(op),
            error : Exceptions \cup {NoException}, found : BOOLEAN] :
           op \in Operations}

FacadeInit ==
    /\ facade_call \in FacadeCalls
    /\ facade_outcome = NoOutcome

FacadeIdle ==
    /\ facade_call = <<>>
    /\ facade_outcome = NoOutcome

\* the operation runs and nothing raises
OperationSucceeds ==
    /\ facade_outcome = NoOutcome
    /\ facade_call.error = NoException
    /\ facade_outcome' =
           [kind |-> "returned",
            value |-> Success(facade_call.op, facade_call.found),
            error |-> NoException]
    /\ UNCHANGED facade_call
    /\ UNCHANGED facade_frame

\* the operation runs and the call at the point raises the error
OperationFails ==
    /\ facade_outcome = NoOutcome
    /\ facade_call.error # NoException
    /\ facade_outcome' =
           Propagate(facade_call.error, facade_call.point.chain)
    /\ UNCHANGED facade_call
    /\ UNCHANGED facade_frame

FacadeNext == OperationSucceeds \/ OperationFails

(***************************************************************************)
(* GoogleSheetsManager (src/utils/google_sheets.py, lines 405-853)         *)
(***************************************************************************)

\* operations of the managers in one behaviour
MaxSheetOps == 3
\* the latest time, in minutes
MaxSheetTime == 35

\* "@st.cache_data(ttl=1800)" of _load_courses_raw, in minutes
CoursesTTL == 30
\* "@st.cache_data(ttl=3600)" of _load_attendance_raw, in minutes
AttendanceTTL == 60
\* "batch_size = 50"
BatchSize == 50

\* the instances of GoogleSheetsManager: the one of the application and the
\* one of ApoderadosEmailSender
Managers == {"app", "apoderados"}

\* the courses that _load_courses_raw returns, with their sede
Catalog == [A |-> "SAN PEDRO", B |-> "SAN PEDRO"]
CourseNames == DOMAIN Catalog
Sedes == {"SAN PEDRO", "CHILLAN"}
\* the order of "for name, data in all_courses.items()"
CourseOrder == <<"A", "B">>

\* the minutes that pass between two operations
SheetSteps == {10, 25}

\* line 623-626: the headers of a new worksheet
Header ==
    <<"Curso", "Fecha", "Estudiante", "Asistencia", "Timestamp", "Usuario">>

\* a row that marks every student present
RowAllPresent(course_name, fecha, estudiante, presente, timestamp, user) ==
    <<course_name, fecha, estudiante, 1, timestamp, user>>

\* lines 633-640: the row of one student
Row(course_name, fecha, estudiante, presente, timestamp, user) ==
    <<course_name, fecha, estudiante, IF presente THEN 1 ELSE 0, timestamp,
      user>>

\* attendance_data with the students 1..n, the odd ones present
AttendanceData(n) == [estudiante \in 1..n |-> estudiante % 2 = 1]

\* lines 629-640: rows_to_append
RowsToAppend(course_name, fecha, attendance_data, timestamp, user) ==
    [i \in 1..Cardinality(DOMAIN attendance_data) |->
        Row(course_name, fecha, i, attendance_data[i], timestamp, user)]

\* lines 643-645: the number of batches and "rows_to_append[i:i + 50]",
\* the batches counted from 1
Batches(rows) == (Len(rows) + BatchSize - 1) \div BatchSize
Batch(rows, k) ==
    SubSeq(rows, (k - 1) * BatchSize + 1, Min(k * BatchSize, Len(rows)))

\* the rows of the batches before batch k
BatchesBefore(rows, k) == SubSeq(rows, 1, Min((k - 1) * BatchSize, Len(rows)))

\* lines 306-329: what _load_attendance_raw makes of the records of a
\* worksheet, whose first row holds the headers: for every student and
\* date the state of the last record, as a set of
\* <<estudiante, fecha, asistencia>>
Asistencias(rows) ==
    {<<rows[i][3], rows[i][2], rows[i][4] # 0>> :
        i \in {i \in 2..Len(rows) :
                  \A j \in (i + 1)..Len(rows) :
                      rows[j][3] # rows[i][3] \/ rows[j][2] # rows[i][2]}}

\* a ledger ({estudiante: {fecha: asistencia}}) and the time of the fetch
\* that read it
Fetched(asistencias, t) == [asistencias |-> asistencias, fetched |-> t]

\* an entry of st.cache_data
Entry(value, t) == [value |-> value, cached_at |-> t]

\* a cache that never serves an entry
ValidNever(cache, key, ttl, t) == FALSE

\* st.cache_data serves an entry for ttl after it stored it
Valid(cache, key, ttl, t) ==
    key \in DOMAIN cache /\ t < cache[key].cached_at + ttl

\* the arguments that key the entries of st.cache_data
CoursesKey == <<"_load_courses_raw">>
AttendanceKey(course_name) == <<"_load_attendance_raw", course_name>>

NoFetches == [courses |-> 0, attendance |-> [c \in CourseNames |-> 0]]

\* what is kept of the operation before the last one
Summary(ret) ==
    [op |-> ret.op, manager |-> ret.manager, arg |-> ret.arg,
     time |-> ret.time, ok |-> ret.ok, fetches |-> ret.fetches,
     cold |-> ret.cold, fecha |-> ret.fecha,
     attendance_data |-> ret.attendance_data]

\* an operation of a manager: its arguments, what it returned (ok for
\* save_attendance, value for the loads), the fetches it made, whether one
\* failed, whether it found every cache empty, the worksheet as
\* save_attendance found it, and the operation before it
NoSheetRet ==
    [op |-> "none", manager |-> "", arg |-> "", time |-> 0, ok |-> TRUE,
     value |-> <<>>, fetches |-> NoFetches, failed |-> FALSE,
     cold |-> FALSE, before |-> <<>>, existed |-> TRUE, fecha |-> "",
     attendance_data |-> <<>>, user |-> "",
     after |-> [op |-> "none", manager |-> "", arg |-> "", time |-> 0,
                ok |-> TRUE, fetches |-> NoFetches, cold |-> FALSE,
                fecha |-> "", attendance_data |-> <<>>]]

SheetsInit ==
    /\ sheet_time = 0
    /\ tabs = [c \in {"A"} |->
                  <<Header, Row("A", "01/04", 1, TRUE, 0, "teacher1")>>]
    /\ data_cache = <<>>
    /\ attendance_cache = [m \in Managers |-> <<>>]
    /\ remote_calls = NoFetches
    /\ sheet_ret = NoSheetRet
    /\ sheet_ops = 0

SheetsIdle ==
    /\ sheet_time = 0
    /\ tabs = <<>>
    /\ data_cache = <<>>
    /\ attendance_cache = <<>>
    /\ remote_calls = NoFetches
    /\ sheet_ret = NoSheetRet
    /\ sheet_ops = 0

\* time passes
SheetTick(d) ==
    /\ sheet_time + d <= MaxSheetTime
    /\ sheet_time' = sheet_time + d
    /\ UNCHANGED <<tabs, data_cache, attendance_cache, remote_calls,
                   sheet_ret, sheet_ops>>
    /\ UNCHANGED sheets_frame

\* the fetches made between two values of remote_calls
FetchesSince(old, new) ==
    [courses |-> new.courses - old.courses,
     attendance |-> [c \in CourseNames |->
                        new.attendance[c] - old.attendance[c]]]

\* the state that a load works on: st.cache_data, the _attendance_cache of
\* the manager, the fetches made, whether one of them failed, and the
\* ledgers loaded so far
Working(m) ==
    [cache |-> data_cache, local |-> attendance_cache[m],
     calls |-> remote_calls, failed |-> FALSE, out |-> <<>>]

\* lines 169-273 seen from the caller: _load_courses_raw behind
\* st.cache_data; a fetch that fails returns {} and {} is cached as well.
\* The value is the set of the names of the courses returned.
LoadCourses(st, t, fail) ==
    IF Valid(st.cache, CoursesKey, CoursesTTL, t)
    THEN [st |-> st, value |-> st.cache[CoursesKey].value]
    ELSE LET value == IF fail THEN {} ELSE CourseNames
         IN  [st |-> [st EXCEPT
                        !.cache = With(st.cache, CoursesKey, Entry(value, t)),
                        !.calls.courses = @ + 1,
                        !.failed = @ \/ fail],
              value |-> value]

\* lines 276-344 seen from the caller: _load_attendance_raw behind
\* st.cache_data; a worksheet that does not exist and a fetch that fails
\* give {}
LoadAttendanceRaw(st, course_name, t, fail) ==
    LET key == AttendanceKey(course_name)
    IN  IF Valid(st.cache, key, AttendanceTTL, t)
        THEN [st |-> st, value |-> st.cache[key].value]
        ELSE LET value ==
                    IF fail \/ course_name \notin DOMAIN tabs
                    THEN Fetched({}, t)
                    ELSE Fetched(Asistencias(tabs[course_name]), t)
             IN  [st |-> [st EXCEPT
                            !.cache = With(st.cache, key, Entry(value, t)),
                            !.calls.attendance[course_name] = @ + 1,
                            !.failed = @ \/ fail],
                  value |-> value]

\* lines 570-581: load_attendance_for_course
LoadAttendanceForCourse(st, course_name, t, fail) ==
    IF course_name \in DOMAIN st.local
    THEN [st |-> st, value |-> st.local[course_name]]
    ELSE LET raw == LoadAttendanceRaw(st, course_name, t, fail)
         IN  [st |-> [raw.st EXCEPT
                        !.local = With(raw.st.local, course_name, raw.value)],
              value |-> raw.value]

\* lines 535-544: the loop over the courses, those of the sede get their
\* ledger
RECURSIVE LoadLedgers(_, _, _, _, _, _)
LoadLedgers(st, names, all_courses, sede, t, fails) ==
    IF names = <<>> THEN st
    ELSE LET name == Head(names)
         IN  IF name \in all_courses /\ Catalog[name] = sede
             THEN LET r == LoadAttendanceForCourse(st, name, t,
                                                   name \in fails)
                  IN  LoadLedgers([r.st EXCEPT
                                      !.out = With(@, name, r.value)],
                                  Tail(names), all_courses, sede, t, fails)
             ELSE LoadLedgers(st, Tail(names), all_courses, sede, t, fails)

\* every cache is empty
Cold ==
    /\ DOMAIN data_cache = {}
    /\ \A m \in Managers : DOMAIN attendance_cache[m] = {}

\* lines 516-551: load_courses_by_sede with the ledgers; fail_courses and
\* fails tell which fetches fail, if they are made
LoadCoursesBySede(m, sede, fail_courses, fails) ==
    /\ sheet_ops < MaxSheetOps
    /\ LET all_courses == LoadCourses(Working(m), sheet_time, fail_courses)
           st == LoadLedgers(all_courses.st, CourseOrder, all_courses.value,
                             sede, sheet_time, fails)
       IN  /\ data_cache' = st.cache
           /\ attendance_cache' = [attendance_cache EXCEPT ![m] = st.local]
           /\ remote_calls' = st.calls
           /\ sheet_ret' =
                  [NoSheetRet EXCEPT
                      !.op = "load_courses_by_sede",
                      !.manager = m,
                      !.arg = sede,
                      !.time = sheet_time,
                      !.value = st.out,
                      !.fetches = FetchesSince(remote_calls, st.calls),
                      !.failed = st.failed,
                      !.cold = Cold,
                      !.after = Summary(sheet_ret)]
    /\ sheet_ops' = sheet_ops + 1
    /\ UNCHANGED <<sheet_time, tabs>>
    /\ UNCHANGED sheets_frame

\* the calls of save_attendance that can raise ("none": no call raises)
SaveFailures ==
    {"none", "open_by_key", "worksheet", "add_worksheet", "append_row",
     "append_rows"}

\* lines 643-647: the rows that append_rows has written once the loop ends
\* or the append of batch k raises
Appended(rows, fail, k) ==
    IF fail = "append_rows" THEN BatchesBefore(rows, k) ELSE rows

\* lines 587-663: save_attendance of the data of the students 1..n, where
\* the call at fail raises, append_rows at its batch k
SaveAttendance(m, course_name, fecha, n, user, fail, k) ==
    /\ sheet_ops < MaxSheetOps
    /\ fail \in {"add_worksheet", "append_row"}
           => course_name \notin DOMAIN tabs
    /\ LET rows == RowsToAppend(course_name, fecha, AttendanceData(n),
                                sheet_time, user)
           existed == course_name \in DOMAIN tabs
           ok == fail = "none"
       IN  /\ k \in 1..Max(1, Batches(rows))
           /\ fail = "append_rows" => Batches(rows) >= 1
           /\ fail # "append_rows" => k = 1
           /\ tabs' =
                  IF fail \in {"open_by_key", "worksheet", "add_worksheet"}
                  THEN tabs
                  ELSE IF existed
                  THEN With(tabs, course_name,
                            tabs[course_name] \o Appended(rows, fail, k))
                  ELSE IF fail = "append_row"
                  THEN With(tabs, course_name, <<>>)
                  ELSE With(tabs, course_name,
                            <<Header>> \o Appended(rows, fail, k))
           /\ attendance_cache' =
                  IF ok
                  THEN [attendance_cache EXCEPT
                           ![m] = Without(@, {course_name})]
                  ELSE attendance_cache
           /\ data_cache' = IF ok THEN <<>> ELSE data_cache
           /\ sheet_ret' =
                  [NoSheetRet EXCEPT
                      !.op = "save_attendance",
                      !.manager = m,
                      !.arg = course_name,
                      !.time = sheet_time,
                      !.ok = ok,
                      !.before = IF existed THEN tabs[course_name]
                                 ELSE <<>>,
                      !.existed = existed,
                      !.fecha = fecha,
                      !.attendance_data = AttendanceData(n),
                      !.user = user,
                      !.after = Summary(sheet_ret)]
    /\ sheet_ops' = sheet_ops + 1
    /\ UNCHANGED <<sheet_time, remote_calls>>
    /\ UNCHANGED sheets_frame

\* lines 777-796: clear_cache
ClearCache(m) ==
    /\ sheet_ops < MaxSheetOps
    /\ attendance_cache' = [attendance_cache EXCEPT ![m] = <<>>]
    /\ data_cache' = <<>>
    /\ sheet_ret' = [NoSheetRet EXCEPT !.op = "clear_cache", !.manager = m,
                                       !.time = sheet_time,
                                       !.after = Summary(sheet_ret)]
    /\ sheet_ops' = sheet_ops + 1
    /\ UNCHANGED <<sheet_time, tabs, remote_calls>>
    /\ UNCHANGED sheets_frame

\* the loads of both managers and the writes of the application, one row
\* each
SheetsNext ==
    \/ \E d \in SheetSteps : SheetTick(d)
    \/ \E m \in Managers, sede \in Sedes, fail_courses \in BOOLEAN,
          fails \in {{}, {"A"}} :
           LoadCoursesBySede(m, sede, fail_courses, fails)
    \/ \E course_name \in CourseNames,
          fail \in {"none", "open_by_key"} :
           SaveAttendance("app", course_name, "06/04", 1, "teacher1",
                          fail, 1)
    \/ \E m \in Managers : ClearCache(m)

\* the sizes of attendance_data
DataSizes == {0, 1, BatchSize, BatchSize + 1}

\* the writes alone, of every size and with a failure at every call
SaveNext ==
    \/ \E course_name \in CourseNames, n \in DataSizes,
          fail \in SaveFailures, k \in 1..2 :
           SaveAttendance("app", course_name, "06/04", n, "teacher1",
                          fail, k)
    \/ SheetTick(25)

(***************************************************************************)
(* The attendance of the reports: the decoding of the records of a ledger  *)
(* (src/utils/google_sheets.py, lines 311-329), the presence cells of      *)
(* src/pages/secretaria_dashboard.py (lines 220-229), and the counts of    *)
(* _calculate_student_stats (src/utils/send_apoderados.py, lines 86-143),  *)
(* _calcular_datos_asistencia (src/pages/secretaria_dashboard.py, lines    *)
(* 570-616) and get_low_attendance_students (src/utils/google_sheets.py,   *)
(* lines 721-775)                                                          *)
(*                                                                         *)
(* A percentage rounded to one decimal is counted in tenths.               *)
(***************************************************************************)
\* class dates of a course
MaxFechas == 2

\* the dates of the classes and a date that no course has
ClassDates == <<"01/04", "02/04", "03/04">>
OtherDate == "31/12"
\* the students: Ana and Luis are in the roster, Eva is in no roster
RosterNames == <<"Ana", "Luis">>
Stranger == "Eva"
\* threshold of get_low_attendance_students
Thresholds == {1, 70}

\* {fecha: estado} of one student, over any dates; a student of
\* "asistencias" has a record at least
Ledgers(T) ==
    UNION {[D -> BOOLEAN] :
              D \in SUBSET ({ClassDates[i] : i \in 1..T} \cup {OtherDate})}

\* "asistencias": the students in the order of their first record; after
\* a student of the roster, the student of no roster has records of the
\* first date and of the other date only
AsistenciasOf(T) ==
    {<<>>}
    \cup {<<[estudiante |-> e, att_data |-> l]>> :
             e \in {"Ana", Stranger}, l \in Ledgers(T) \ {<<>>}}
    \cup {<<[estudiante |-> "Ana", att_data |-> l],
            [estudiante |-> Stranger, att_data |-> m]>> :
             l \in Ledgers(T) \ {<<>>}, m \in Ledgers(1) \ {<<>>}}

\* curso_data
CursoDatas ==
    UNION {[fechas : {SubSeq(ClassDates, 1, T)},
            estudiantes : {SubSeq(RosterNames, 1, n) : n \in 0..2},
            asistencias : AsistenciasOf(T)] : T \in 0..MaxFechas}

\* "asistencias.get(estudiante, {})"
AsistenciasGet(asistencias, estudiante) ==
    IF \E i \in DOMAIN asistencias : asistencias[i].estudiante = estudiante
    THEN asistencias[CHOOSE i \in DOMAIN asistencias :
                         asistencias[i].estudiante = estudiante].att_data
    ELSE <<>>

\* "sum(1 for estado in att_data.values() if estado)"
Presentes(att_data) == Cardinality({f \in DOMAIN att_data : att_data[f]})

\* "round(presentes / total * 100, 1) if total > 0 else 0", in tenths; no
\* quotient of the model lies half way between two tenths
Porcentaje(presentes, total) ==
    IF total > 0 THEN (presentes * 2000 + total) \div (2 * total) ELSE 0

\* send_apoderados.py, lines 95-132, without fecha_reporte
CalculateStudentStatsOf(estudiante, curso_data) ==
    LET asistencias_est == AsistenciasGet(curso_data.asistencias, estudiante)
        total_fechas == Len(curso_data.fechas)
        presentes == Presentes(asistencias_est)
    IN  [estudiante |-> estudiante,
         porcentaje |-> Porcentaje(presentes, total_fechas),
         total_clases |-> total_fechas,
         presentes |-> presentes,
         ausentes |-> total_fechas - presentes]

\* secretaria_dashboard.py, lines 580-612: the row of one student
DatosAsistencia(estudiante, curso_data) ==
    LET asistencia_est == AsistenciasGet(curso_data.asistencias, estudiante)
        total_clases == Len(curso_data.fechas)
        presentes == Presentes(asistencia_est)
    IN  [estudiante |-> estudiante,
         porcentaje |-> Porcentaje(presentes, total_clases),
         total_clases |-> total_clases,
         presentes |-> presentes,
         ausentes |-> IF total_clases > 0 THEN total_clases - presentes
                      ELSE 0]

\* google_sheets.py, lines 747-765: the students of "asistencias" whose
\* percentage is under the threshold, in the order of "asistencias"
RECURSIVE LowStudents(_, _, _)
LowStudents(asistencias, total_fechas, threshold) ==
    IF asistencias = <<>> THEN <<>>
    ELSE LET presentes == Presentes(Head(asistencias).att_data)
             rest == LowStudents(Tail(asistencias), total_fechas, threshold)
         IN  IF presentes * 100 < threshold * total_fechas
             THEN <<[estudiante |-> Head(asistencias).estudiante,
                     porcentaje |-> Porcentaje(presentes, total_fechas),
                     total_clases |-> total_fechas,
                     presentes |-> presentes]>> \o rest
             ELSE rest

\* "low_students.sort(key=lambda x: x["porcentaje"])": a stable sort
RECURSIVE SortByPorcentaje(_)
SortByPorcentaje(low_students) ==
    IF low_students = <<>> THEN <<>>
    ELSE LET first == Head(low_students)
             rest == SortByPorcentaje(Tail(low_students))
             before == SelectSeq(rest,
                           LAMBDA x : x.porcentaje < first.porcentaje)
             after == SelectSeq(rest,
                          LAMBDA x : x.porcentaje >= first.porcentaje)
         IN  before \o <<first>> \o after

\* a value of a record of a ledger or of a cell, with its Python type and
\* its repr
Estado(type, repr) == [type |-> type, repr |-> repr]
Estados ==
    {Estado("bool", <<"T", "r", "u", "e">>),
     Estado("bool", <<"F", "a", "l", "s", "e">>),
     Estado("int", <<"0">>), Estado("int", <<"1">>), Estado("int", <<"2">>),
     Estado("float", <<"1", ".", "0">>), Estado("float", <<"0", ".", "5">>),
     Estado("NoneType", <<"N", "o", "n", "e">>),
     Estado("str", <<>>), Estado("str", <<"0">>), Estado("str", <<"1">>),
     Estado("str", <<" ", "1", " ">>), Estado("str", <<"1", ".", "0">>),
     Estado("str", <<"P", "r", "e", "s", "e", "n", "t", "e">>),
     Estado("str", <<"S", "I">>), Estado("str", <<"s", "i_acute">>),
     Estado("str", <<"p">>), Estado("str", <<"T", "R", "U", "E">>),
     Estado("str", <<"a", "u", "s", "e", "n", "t", "e">>)}

\* '["true", "1", "si", "sí", "presente", "p"]'
PresentWords ==
    {<<"t", "r", "u", "e">>, <<"1">>, <<"s", "i">>, <<"s", "i_acute">>,
     <<"p", "r", "e", "s", "e", "n", "t", "e">>, <<"p">>}

\* bool() of a number: it is not zero
Truthy(repr) ==
    \E i \in DOMAIN repr :
        repr[i] \in {"1", "2", "3", "4", "5", "6", "7", "8", "9"}

\* google_sheets.py, lines 319-329: the state stored for a record
DecodeEstado(estado) ==
    IF estado.type = "bool" THEN estado.repr = <<"T", "r", "u", "e">>
    ELSE IF estado.type \in {"int", "float"} THEN Truthy(estado.repr)
    ELSE IF estado.type = "str"
    THEN Strip(Lower(estado.repr)) \in PresentWords
    ELSE FALSE

\* secretaria_dashboard.py, lines 224-226: 'str(cell).strip() == "1"'
DecodeCell(cell) == Strip(cell.repr) = <<"1">>

NoReport == [fn |-> "none", value |-> <<>>]
Report(fn, value) == [fn |-> fn, value |-> value]

ReportCall(fn, estudiante, curso_data, threshold, estado) ==
    [fn |-> fn, estudiante |-> estudiante, curso_data |-> curso_data,
     threshold |-> threshold, estado |-> estado]

\* the calls: the counts on the courses that load_courses_by_sede gives,
\* which have a class date and a student at least, those of the dashboard
\* on any course
ReportCalls ==
    {ReportCall("_calculate_student_stats", e, c, 0, Estado("NoneType", <<>>)) :
        e \in {"Ana", "Luis"},
        c \in {c \in CursoDatas : c.fechas # <<>> /\ Len(c.estudiantes) = 2}}
    \cup {ReportCall("_calcular_datos_asistencia", "", c, 0,
                     Estado("NoneType", <<>>)) : c \in CursoDatas}
    \cup {ReportCall("get_low_attendance_students", "", c, th,
                     Estado("NoneType", <<>>)) :
             c \in {c \in CursoDatas :
                        c.fechas # <<>> /\ c.estudiantes # <<>>},
             th \in Thresholds}
    \cup {ReportCall(fn, "", <<>>, 0, estado) :
             fn \in {"_load_attendance_raw", "_manual_parse_courses_safe"},
             estado \in Estados}

ReportInit ==
    /\ report_call \in ReportCalls
    /\ report_result = NoReport

ReportIdle ==
    /\ report_call = <<>>
    /\ report_result = NoReport

\* the function called returns value
ReportReturns(fn, value) ==
    /\ report_result.fn = "none"
    /\ report_call.fn = fn
    /\ report_result' = Report(fn, value)
    /\ UNCHANGED report_call
    /\ UNCHANGED report_frame

CalculateStudentStats ==
    ReportReturns("_calculate_student_stats",
                  CalculateStudentStatsOf(report_call.estudiante,
                                          report_call.curso_data))

\* secretaria_dashboard.py, lines 570-616
CalcularDatosAsistencia ==
    ReportReturns("_calcular_datos_asistencia",
                  [i \in DOMAIN report_call.curso_data.estudiantes |->
                      DatosAsistencia(report_call.curso_data.estudiantes[i],
                                      report_call.curso_data)])

\* google_sheets.py, lines 721-775, on the course of a sede
GetLowAttendanceStudents ==
    ReportReturns("get_low_attendance_students",
                  IF Len(report_call.curso_data.fechas) = 0 THEN <<>>
                  ELSE SortByPorcentaje(
                           LowStudents(report_call.curso_data.asistencias,
                                       Len(report_call.curso_data.fechas),
                                       report_call.threshold)))

\* google_sheets.py, lines 311-329, on one record
LoadAttendanceRecord ==
    ReportReturns("_load_attendance_raw", DecodeEstado(report_call.estado))

\* secretaria_dashboard.py, lines 220-229, on one cell
ManualParseCell ==
    ReportReturns("_manual_parse_courses_safe",
                  DecodeCell(report_call.estado))

ReportNext ==
    \/ CalculateStudentStats
    \/ CalcularDatosAsistencia
    \/ GetLowAttendanceStudents
    \/ LoadAttendanceRecord
    \/ ManualParseCell

(***************************************************************************)
(* The calls of the remote client made by the operations of the data       *)
(* layer, and the wrappers of rate_limited they go through                 *)
(* (src/utils/google_sheets.py, lines 169-172, 276-279, 347-350, 587-663   *)
(* and 798-853).  One caller; the wrapper runs in one step and the calls   *)
(* of the remote client take no time.                                      *)
(***************************************************************************)
\* operations of the data layer in one behaviour
MaxBudgetOps == 3
\* the latest time at which time passes by itself
MaxBudgetTime == 360

\* the functions decorated with rate_limited: each decoration makes its
\* own last_called, request_count and reset_time
Limited == {"_load_courses_raw", "_load_attendance_raw", "_load_emails_raw"}

\* the calls of the remote client that an operation makes when nothing
\* fails, for a spreadsheet with one course: lines 183-203, 290-306,
\* 361-380, 609-646 (one batch) and 824-839
RemoteCallsOf(op) ==
    CASE op = "_load_courses_raw" ->
             <<"open_by_key", "worksheets", "get_all_values">>
      [] op = "_load_attendance_raw" ->
             <<"open_by_key", "worksheet", "get_all_records">>
      [] op = "_load_emails_raw" ->
             <<"open_by_key", "worksheet", "get_all_records">>
      [] op = "save_attendance" ->
             <<"open_by_key", "worksheet", "append_rows">>
      [] op = "test_connection" ->
             <<"open_by_key", "worksheets", "open_by_key", "worksheet">>

\* lines 27-30: the closure when the decorator is applied
NewLimiter ==
    [last_called |-> 0, request_count |-> 0,
     reset_time |-> StartTime + Window]

\* lines 42-69: the wrapper called at cur; invoked_at is the time at which
\* it invokes the decorated function
Acquire(l, cur) ==
    LET expired == WindowExpired(cur, l.reset_time)
        count == IF expired THEN 0 ELSE l.request_count
        reset == IF expired THEN cur + Window ELSE l.reset_time
        wait_time == reset - cur
        waits == CeilingReached(count) /\ wait_time > 0
        woken == IF waits THEN cur + wait_time + Margin ELSE cur
        left_to_wait == LeftToWait(cur, l.last_called)
        invoked_at == IF left_to_wait > 0 THEN woken + left_to_wait
                      ELSE woken
    IN  [last_called |-> invoked_at,
         request_count |-> (IF waits THEN 0 ELSE count) + 1,
         reset_time |-> IF waits THEN woken + Window ELSE reset,
         invoked_at |-> invoked_at]

\* the calls of op made at time t under the wrapper of limiter
Logged(op, limiter, t) ==
    [i \in DOMAIN RemoteCallsOf(op) |->
        [call |-> RemoteCallsOf(op)[i], op |-> op, limiter |-> limiter,
         time |-> t]]

BudgetInit ==
    /\ budget_now = StartTime
    /\ limiters = [f \in Limited |-> NewLimiter]
    /\ remote_log = <<>>
    /\ budget_ops = 0

BudgetIdle ==
    /\ budget_now = 0
    /\ limiters = <<>>
    /\ remote_log = <<>>
    /\ budget_ops = 0

\* time passes
BudgetTick(d) ==
    /\ budget_now + d <= MaxBudgetTime
    /\ budget_now' = budget_now + d
    /\ UNCHANGED <<limiters, remote_log, budget_ops>>
    /\ UNCHANGED budget_frame

\* a decorated loader is called and st.cache_data has no entry for it: the
\* wrapper of its own rate_limited runs, then the function
Fetch(f) ==
    /\ budget_ops < MaxBudgetOps
    /\ LET l == Acquire(limiters[f], budget_now)
       IN  /\ limiters' = [limiters EXCEPT
                              ![f] = [last_called |-> l.last_called,
                                      request_count |-> l.request_count,
                                      reset_time |-> l.reset_time]]
           /\ budget_now' = l.invoked_at
           /\ remote_log' = remote_log \o Logged(f, f, l.invoked_at)
    /\ budget_ops' = budget_ops + 1
    /\ UNCHANGED budget_frame

\* an operation that is not decorated: save_attendance, test_connection
Undecorated(op) ==
    /\ budget_ops < MaxBudgetOps
    /\ remote_log' = remote_log \o Logged(op, "none", budget_now)
    /\ budget_ops' = budget_ops + 1
    /\ UNCHANGED <<budget_now, limiters>>
    /\ UNCHANGED budget_frame

BudgetNext ==
    \/ \E d \in {MinInterval, Window} : BudgetTick(d)
    \/ \E f \in Limited : Fetch(f)
    \/ \E op \in {"save_attendance", "test_connection"} : Undecorated(op)

(***************************************************************************)
(* One read, step by step: the method of GoogleSheetsManager, the          *)
(* decorators of the function it calls, and the function                   *)
(* (src/utils/google_sheets.py, lines 169-172, 276-279, 347-350, 442-483,  *)
(* 553-585, 665-681)                                                       *)
(***************************************************************************)
\* the decorators of _load_courses_raw, _load_attendance_raw and
\* _load_emails_raw, the outermost first
DecoratorsLimiterOutside ==
    <<"rate_limited", "st.cache_data", "retry_with_backoff">>
Decorators == <<"st.cache_data", "retry_with_backoff", "rate_limited">>

\* the layers that a read goes through before the function runs:
\* load_attendance_for_course looks in _attendance_cache first
Layers(op) ==
    IF op = "load_attendance_for_course"
    THEN <<"_attendance_cache">> \o Decorators
    ELSE Decorators

\* the try statement of the function that a read calls
RawTry(op) ==
    CASE op = "load_courses" -> Except._load_courses_raw
      [] op = "load_attendance_for_course" -> Except._load_attendance_raw
      [] op = "load_emails" -> Except._load_emails_raw

EmailsKey == <<"_load_emails_raw">>

\* the arguments that key the entry of a read; that of _attendance_cache
\* has the name of the course as well
ReadKey(op, course_name) ==
    CASE op = "load_courses" -> CoursesKey
      [] op = "load_attendance_for_course" -> AttendanceKey(course_name)
      [] op = "load_emails" -> EmailsKey

ReadOps == {"load_courses", "load_attendance_for_course", "load_emails"}

ReadKeys ==
    {CoursesKey, EmailsKey} \cup {AttendanceKey(c) : c \in CourseNames}

NoRead == [op |-> "none", key |-> <<>>, error |-> NoException]

ReadInit ==
    /\ read_req = NoRead
    /\ read_pc = "idle"
    /\ read_depth = 0
    /\ read_attempt = 0
    /\ read_raised = FALSE
    /\ read_trace = <<>>
    /\ st_cache_data = {}
    /\ local_cache = {}

ReadIdle == ReadInit

\* the layer that runs
Layer == Layers(read_req.op)[read_depth]

\* the entries of the cache of a layer
Held(layer) ==
    IF layer = "_attendance_cache" THEN local_cache ELSE st_cache_data

\* lines 442-464, 563-569, 672-677: a method is called; the remote client
\* raises error in the function if the function runs; force_refresh is of
\* load_courses alone
ReadRequested(op, course_name, force_refresh, error) ==
    /\ read_pc = "idle"
    /\ force_refresh => op = "load_courses"
    /\ op # "load_attendance_for_course" => course_name = "A"
    /\ read_req' = [op |-> op, key |-> ReadKey(op, course_name),
                    error |-> error]
    /\ read_pc' = "in"
    /\ read_depth' = 1
    /\ read_attempt' = 0
    /\ read_raised' = FALSE
    /\ read_trace' = <<"REQUESTED">>
    /\ st_cache_data' = IF force_refresh THEN {} ELSE st_cache_data
    /\ UNCHANGED local_cache
    /\ UNCHANGED read_frame

\* lines 572-573 and the wrapper of st.cache_data: the value of the key is
\* returned when the cache holds one, the layer below is called otherwise
CacheLookup ==
    /\ read_pc = "in"
    /\ read_depth <= Len(Layers(read_req.op))
    /\ Layer \in {"_attendance_cache", "st.cache_data"}
    /\ IF read_req.key \in Held(Layer)
       THEN /\ read_trace' = read_trace \o <<"CACHE_LOOKUP", "HIT">>
            /\ read_pc' = "out"
            /\ read_depth' = read_depth - 1
       ELSE /\ read_trace' = read_trace \o <<"CACHE_LOOKUP", "MISS">>
            /\ read_pc' = "in"
            /\ read_depth' = read_depth + 1
    /\ UNCHANGED <<read_req, read_attempt, read_raised, st_cache_data,
                   local_cache>>
    /\ UNCHANGED read_frame

\* lines 104-107: an attempt of retry_with_backoff calls the layer below
RetryAttempt ==
    /\ read_pc = "in"
    /\ read_depth <= Len(Layers(read_req.op))
    /\ Layer = "retry_with_backoff"
    /\ read_attempt' = read_attempt + 1
    /\ read_raised' = FALSE
    /\ read_depth' = read_depth + 1
    /\ UNCHANGED <<read_req, read_pc, read_trace, st_cache_data, local_cache>>
    /\ UNCHANGED read_frame

\* lines 36-68: the wrapper of rate_limited takes the lock flag and waits
\* as the limits ask, then calls the function
RateLimitedWait ==
    /\ read_pc = "in"
    /\ read_depth <= Len(Layers(read_req.op))
    /\ Layer = "rate_limited"
    /\ read_trace' = Append(read_trace, "RATE_LIMITED_WAIT")
    /\ read_depth' = read_depth + 1
    /\ UNCHANGED <<read_req, read_pc, read_attempt, read_raised,
                   st_cache_data, local_cache>>
    /\ UNCHANGED read_frame

\* lines 173-273, 280-344, 351-402: the function calls the remote client;
\* an error of the client is handled by the try statement of the function
RemoteFetch ==
    /\ read_pc = "in"
    /\ read_depth = Len(Layers(read_req.op)) + 1
    /\ read_trace' = Append(read_trace, "REMOTE_FETCH")
    /\ read_raised' =
           /\ read_req.error.cls # "None"
           /\ Propagate(read_req.error, <<RawTry(read_req.op)>>).kind
                  = "raised"
    /\ read_pc' = "out"
    /\ read_depth' = read_depth - 1
    /\ UNCHANGED <<read_req, read_attempt, st_cache_data, local_cache>>
    /\ UNCHANGED read_frame

\* lines 77-81: the wrapper of rate_limited frees the lock flag and passes
\* on the value or the error
RateLimitedLeaves ==
    /\ read_pc = "out"
    /\ read_depth >= 1
    /\ Layer = "rate_limited"
    /\ read_depth' = read_depth - 1
    /\ UNCHANGED <<read_req, read_pc, read_attempt, read_raised, read_trace,
                   st_cache_data, local_cache>>
    /\ UNCHANGED read_frame

\* lines 107-126: retry_with_backoff returns the value; after an error
\* that it retries it sleeps and makes the next attempt
RetryLeaves ==
    /\ read_pc = "out"
    /\ read_depth >= 1
    /\ Layer = "retry_with_backoff"
    /\ IF /\ read_raised
          /\ ShouldRetry(read_req.error)
          /\ read_attempt < MaxRetries + 1
       THEN /\ read_pc' = "in"
            /\ read_trace' = Append(read_trace, "RETRY_WAIT")
            /\ UNCHANGED read_depth
       ELSE /\ read_depth' = read_depth - 1
            /\ UNCHANGED <<read_pc, read_trace>>
    /\ UNCHANGED <<read_req, read_attempt, read_raised, st_cache_data,
                   local_cache>>
    /\ UNCHANGED read_frame

\* line 579 and the wrapper of st.cache_data: the value that the layer
\* below returned is stored; an error passes and nothing is stored
CacheStore ==
    /\ read_pc = "out"
    /\ read_depth >= 1
    /\ Layer \in {"_attendance_cache", "st.cache_data"}
    /\ read_trace' = IF read_raised THEN read_trace
                     ELSE Append(read_trace, "CACHE_STORE")
    /\ st_cache_data' =
           IF ~read_raised /\ Layer = "st.cache_data"
           THEN st_cache_data \cup {read_req.key}
           ELSE st_cache_data
    /\ local_cache' =
           IF ~read_raised /\ Layer = "_attendance_cache"
           THEN local_cache \cup {read_req.key}
           ELSE local_cache
    /\ read_depth' = read_depth - 1
    /\ UNCHANGED <<read_req, read_pc, read_attempt, read_raised>>
    /\ UNCHANGED read_frame

\* lines 470-483, 581-585, 677-681: the method returns the value, or what
\* its except clause returns
ReadReturns ==
    /\ read_pc = "out"
    /\ read_depth = 0
    /\ read_trace' = Append(read_trace, "RETURN")
    /\ read_pc' = "idle"
    /\ read_raised' = FALSE
    /\ UNCHANGED <<read_req, read_depth, read_attempt, st_cache_data,
                   local_cache>>
    /\ UNCHANGED read_frame

\* the ttl of an entry of st.cache_data ends
EntryExpires(key) ==
    /\ read_pc = "idle"
    /\ key \in st_cache_data
    /\ st_cache_data' = st_cache_data \ {key}
    /\ UNCHANGED <<read_req, read_pc, read_depth, read_attempt, read_raised,
                   read_trace, local_cache>>
    /\ UNCHANGED read_frame

\* lines 777-796: clear_cache
ReadClearCache ==
    /\ read_pc = "idle"
    /\ st_cache_data # {} \/ local_cache # {}
    /\ st_cache_data' = {}
    /\ local_cache' = {}
    /\ UNCHANGED <<read_req, read_pc, read_depth, read_attempt, read_raised,
                   read_trace>>
    /\ UNCHANGED read_frame

\* lines 414-419: a manager is made, its _attendance_cache is empty
NewManager ==
    /\ read_pc = "idle"
    /\ local_cache # {}
    /\ local_cache' = {}
    /\ UNCHANGED <<read_req, read_pc, read_depth, read_attempt, read_raised,
                   read_trace, st_cache_data>>
    /\ UNCHANGED read_frame

ReadNext ==
    \/ \E op \in ReadOps, course_name \in CourseNames,
          force_refresh \in BOOLEAN,
          error \in {NoException, QuotaExceeded, Transient, NotFound} :
           ReadRequested(op, course_name, force_refresh, error)
    \/ CacheLookup
    \/ RetryAttempt
    \/ RateLimitedWait
    \/ RemoteFetch
    \/ RateLimitedLeaves
    \/ RetryLeaves
    \/ CacheStore
    \/ ReadReturns
    \/ \E key \in ReadKeys : EntryExpires(key)
    \/ ReadClearCache
    \/ NewManager

(***************************************************************************)
(* Specifications                                                          *)
(***************************************************************************)
\* one caller, every timing
RateNext ==
    \/ \E d \in Gaps : Call(MainThread, d)
    \/ TestLock(MainThread)
    \/ SetLock(MainThread)
    \/ Enter(MainThread)
    \/ \E over \in Oversleep : WakeLimit(MainThread, over)
    \/ Pace(MainThread)
    \/ \E over \in Oversleep : WakePace(MainThread, over)
    \/ IncrLoad(MainThread)
    \/ IncrStore(MainThread)
    \/ \E d \in FuncTimes : FuncReturn(MainThread, d)
    \/ \E d \in FuncTimes : FuncRaise(MainThread, d)
    \/ Release(MainThread)

\* the components added later are idle
LaterIdle == ReportIdle /\ BudgetIdle /\ ReadIdle

OthersIdle == ParseIdle /\ FacadeIdle /\ SheetsIdle /\ LaterIdle

RateSpecInit == RateInit /\ RetryIdle /\ CacheIdle /\ OthersIdle

SpecRate == RateSpecInit /\ [][RateNext]_vars

\* several threads, calls issued back to back
LockNext ==
    \E t \in Threads :
        \/ Call(t, 0)
        \/ TestLock(t)
        \/ SpinSleep(t)
        \/ SetLock(t)
        \/ Enter(t)
        \/ WakeLimit(t, 0)
        \/ Pace(t)
        \/ WakePace(t, 0)
        \/ IncrLoad(t)
        \/ IncrStore(t)
        \/ FuncReturn(t, 0)
        \/ FuncRaise(t, 0)
        \/ Release(t)

SpecLock == RateSpecInit /\ [][LockNext]_vars

\* the steps of a thread inside the wrapper: once called, a thread is
\* runnable until the wrapper returns or raises
Running(t) ==
    \/ TestLock(t)
    \/ SpinSleep(t)
    \/ SetLock(t)
    \/ Enter(t)
    \/ WakeLimit(t, 0)
    \/ Pace(t)
    \/ WakePace(t, 0)
    \/ IncrLoad(t)
    \/ IncrStore(t)
    \/ FuncReturn(t, 0)
    \/ FuncRaise(t, 0)
    \/ Release(t)

\* the wrapper once the main thread has made CallsPerMinute calls back to
\* back: the first at StartTime, each of the others min_interval after the
\* one before; the budget of the window is used and no call is under way
WindowUsed ==
    LET last == StartTime + (CallsPerMinute - 1) * MinInterval
    IN  /\ now = last
        /\ lock = FALSE
        /\ request_count = CallsPerMinute
        /\ reset_time = StartTime + Window
        /\ last_called = last
        /\ pc = [t \in Threads |-> "idle"]
        /\ current_time = [t \in Threads |->
                              IF t = MainThread THEN last - MinInterval
                              ELSE 0]
        /\ wake = [t \in Threads |-> IF t = MainThread THEN last ELSE 0]
        /\ sleep_req = [t \in Threads |->
                           IF t = MainThread THEN MinInterval ELSE 0]
        /\ loaded = [t \in Threads |->
                        IF t = MainThread THEN CallsPerMinute - 1 ELSE 0]
        /\ invoked = [i \in 1..CallsPerMinute |->
                         StartTime + (i - 1) * MinInterval]
        /\ counted = CallsPerMinute
        /\ ncalls = CallsPerMinute

LockFairInit == WindowUsed /\ RetryIdle /\ CacheIdle /\ OthersIdle

\* the threads call a wrapper whose window is used, under a scheduler that
\* runs every runnable thread
SpecLockFair ==
    /\ LockFairInit
    /\ [][LockNext]_vars
    /\ \A t \in Threads : WF_vars(Running(t))

\* one decorated operation called once, with every choice of arguments
RetrySpecInit == RetryInit /\ RateInit /\ CacheIdle /\ OthersIdle

SpecRetry == RetrySpecInit /\ [][RetryNext]_vars

CacheSpecInit ==
    CacheInit /\ RaceInit /\ RateInit /\ RetryIdle /\ OthersIdle

\* one caller of the cache, operations in every order, at every time
SpecCache == CacheSpecInit /\ [][CacheNext]_vars

\* several threads in the methods of the cache, in every interleaving
SpecCacheRace == CacheSpecInit /\ [][RaceNext]_vars

\* _load_courses_raw called twice on every spreadsheet
ParseSpecInit ==
    ParseInit /\ RateInit /\ RetryIdle /\ CacheIdle /\ FacadeIdle
        /\ SheetsIdle /\ LaterIdle

SpecParse == ParseSpecInit /\ [][ParseNext]_vars

\* _load_courses_raw on the worksheets laid out by their markers
LandmarkSpecInit ==
    LandmarkInit /\ RateInit /\ RetryIdle /\ CacheIdle /\ FacadeIdle
        /\ SheetsIdle /\ LaterIdle

SpecLandmark == LandmarkSpecInit /\ [][ParseNext]_vars

\* the functions of the reports, each on every argument
ReportSpecInit ==
    ReportInit /\ RateInit /\ RetryIdle /\ CacheIdle /\ ParseIdle
        /\ FacadeIdle /\ SheetsIdle /\ BudgetIdle /\ ReadIdle

\* the operations of the data layer, in every order
BudgetSpecInit ==
    BudgetInit /\ RateInit /\ RetryIdle /\ CacheIdle /\ ParseIdle
        /\ FacadeIdle /\ SheetsIdle /\ ReportIdle /\ ReadIdle

SpecBudget == BudgetSpecInit /\ [][BudgetNext]_vars

SpecReport == ReportSpecInit /\ [][ReportNext]_vars

\* the reads of one manager, one after the other, with the expiry and the
\* clearing of the caches between them
ReadSpecInit ==
    ReadInit /\ RateInit /\ RetryIdle /\ CacheIdle /\ ParseIdle
        /\ FacadeIdle /\ SheetsIdle /\ ReportIdle /\ BudgetIdle

SpecRead == ReadSpecInit /\ [][ReadNext]_vars

\* every public operation, with every exception at every call it makes
FacadeSpecInit ==
    FacadeInit /\ RateInit /\ RetryIdle /\ CacheIdle /\ ParseIdle
        /\ SheetsIdle /\ LaterIdle

SpecFacade == FacadeSpecInit /\ [][FacadeNext]_vars

SheetsSpecInit ==
    SheetsInit /\ RateInit /\ RetryIdle /\ CacheIdle /\ ParseIdle
        /\ FacadeIdle /\ LaterIdle

\* the managers load and the application writes, at every time
SpecSheets == SheetsSpecInit /\ [][SheetsNext]_vars

\* the application writes
SpecSave == SheetsSpecInit /\ [][SaveNext]_vars

(***************************************************************************)
(* Claims about rate_limited                                               *)
(***************************************************************************)
\* invocations of the wrapped function in the 60 s interval that ends with
\* the i-th invocation (open at its start, closed at its end)
InTrailingWindow(i) ==
    {j \in 1..Len(invoked) :
        invoked[j] > invoked[i] - Window /\ invoked[j] <= invoked[i]}

\* C1: no trailing 60-second interval contains more than calls_per_minute
\* invocations of the wrapped function.
C1_TrailingWindowCeiling ==
    \A i \in 1..Len(invoked) : Cardinality(InTrailingWindow(i)) <= CallsPerMinute

\* C2: the per-window counter request_count never exceeds calls_per_minute;
\* a call that arrives with the counter at the ceiling is not invoked before
\* the window has reset and the counter has restarted from zero.
C2_CounterWithinCeiling ==
    /\ request_count <= CallsPerMinute
    /\ \A t \in Threads :
          pc[t] \in {"pace", "sleep_pace", "incr_load", "incr_store"}
              => request_count < CallsPerMinute

SleepPcs == {"sleep_limit", "sleep_pace"}

\* C3 as stated: a call that is among the first calls_per_minute calls of its
\* window takes no sleep before the wrapped function runs.
C3_FirstCallsNeverSleep ==
    \A t \in Threads : pc[t] \in SleepPcs => request_count >= CallsPerMinute

\* C3 as amended: a call that is among the first calls_per_minute calls of
\* its window never takes the wait for the window reset; the only sleep it
\* can take is the minimum-interval sleep, of at most 60 / calls_per_minute
\* seconds.
C3_FirstCallsOnlyPaced ==
    \A t \in Threads :
        /\ pc[t] = "sleep_limit" => request_count >= CallsPerMinute
        /\ (pc[t] = "sleep_pace" /\ request_count < CallsPerMinute)
              => (sleep_req[t] > 0 /\ sleep_req[t] <= MinInterval)

\* the last of calls_per_minute calls of one window is delayed by the
\* minimum-interval sleep
C3_Witness ==
    /\ pc[MainThread] = "sleep_pace"
    /\ request_count = CallsPerMinute - 1
    /\ sleep_req[MainThread] > 0

\* positions between "lock = True" and "lock = False"
CriticalPcs == {"enter", "sleep_limit", "pace", "sleep_pace", "incr_load",
                "incr_store", "func", "release"}

\* C4: at most one thread at a time is between acquiring the lock flag and
\* releasing it, and no counted call is lost: once every started increment
\* is written, request_count equals the invocations made since it was reset.
C4_Serialized ==
    /\ Cardinality({t \in Threads : pc[t] \in CriticalPcs}) <= 1
    /\ (\A t \in Threads : pc[t] # "incr_store") => request_count = counted

(***************************************************************************)
(* Claims about retry_with_backoff                                         *)
(***************************************************************************)
Raised == r_pc = "done" /\ outcome.kind = "raised"
Returned == r_pc = "done" /\ outcome.kind = "returned"

\* C5: an authentication (401/403) or not-found (404) failure of the wrapped
\* operation is not retried: as soon as the operation has failed with it, the
\* wrapper has raised that error, with no further invocation and no sleep.
C5_FatalErrorNotRetried ==
    last_exception \in FatalErrors
        => /\ Raised
           /\ outcome.error = last_exception
           /\ Len(slept) = tries - 1

\* C6 as stated: the operation is invoked at most max_retries + 1 times, and
\* when the retries are exhausted the error that reaches the caller carries
\* the attempt count.
C6_ExhaustedErrorAnnotated ==
    /\ tries <= max_retries + 1
    /\ (Raised /\ tries = max_retries + 1)
          => /\ "attempts" \in DOMAIN outcome.error
             /\ outcome.error.attempts = tries

\* C6 as amended: the operation is invoked at most max_retries + 1 times;
\* the error of the last attempt reaches the caller unchanged, and after at
\* least one retry the attempt count is written to the error log.
C6_BoundedAttemptsErrorLogged ==
    /\ tries <= max_retries + 1
    /\ Raised
          => /\ outcome.error = last_exception
             /\ outcome.error \in Errors
    /\ (Raised /\ tries = max_retries + 1 /\ max_retries >= 1)
          => /\ Len(log) > 0
             /\ log[Len(log)] = LogRecord("error", 125, max_retries + 1, 0)

\* every retry was used and the last attempt failed too
C6_Witness ==
    /\ Raised
    /\ max_retries = MaxRetries
    /\ tries = max_retries + 1
    /\ outcome.error = QuotaExceeded

RECURSIVE Pow(_, _)
Pow(b, n) == IF n = 0 THEN 1 ELSE b * Pow(b, n - 1)

\* C7: when the operation fails max_retries times and then succeeds, the
\* wrapper returns the value of the operation, and the sleep between
\* attempt i and attempt i + 1 is at least
\* initial_delay * backoff_factor^(i - 1).
C7_SuccessAfterBackoff ==
    (Returned /\ tries = max_retries + 1)
        => /\ outcome.value = op_value
           /\ Len(slept) = max_retries
           /\ \A i \in 1..Len(slept) :
                 slept[i] * Pow(backoff_factor[2], i - 1)
                     >= initial_delay * Pow(backoff_factor[1], i - 1)

\* two failures, then a success, with the default backoff factor
C7_Witness ==
    /\ Returned
    /\ max_retries >= 2
    /\ tries = max_retries + 1
    /\ backoff_factor = <<5, 2>>
    /\ last_exception \in RetryableErrors

(***************************************************************************)
(* Claims about CacheManager                                               *)
(***************************************************************************)
CacheKeysOf(state) == {k \in DOMAIN state : IsCacheKey(k)}

\* C8: a get performed after the expiration of the entry returns None,
\* deletes the entry in that same get and counts as a miss, not as a hit; a
\* get that returns a stored value returns one that has not expired; and
\* get_stats().current_size counts exactly the entries still stored.
C8_ExpiredEntryNeverReturned ==
    [][/\ \A key \in Keys :
            CacheGet(key) =>
                LET cache_key == CacheKey(key)
                    present == cache_key \in DOMAIN session_state
                IN  /\ (present /\ clock > session_state[cache_key].expiration)
                          => /\ cache_ret'.value = NoneValue
                             /\ cache_key \notin DOMAIN session_state'
                             /\ CacheKeysOf(session_state')
                                    = CacheKeysOf(session_state) \ {cache_key}
                             /\ cache_stats'.misses = cache_stats.misses + 1
                             /\ cache_stats'.hits = cache_stats.hits
                    /\ cache_ret'.log = "Cache hit"
                          => /\ present
                             /\ clock <= session_state[cache_key].expiration
       /\ GetStats =>
            cache_ret'.stats.current_size
                = Cardinality(CacheKeysOf(session_state))
      ]_vars

\* a get has found its entry expired
C8_Witness ==
    /\ cache_ret.op = "get"
    /\ cache_ret.log = "Cache expirado"
    /\ CacheKey(cache_ret.key) \notin DOMAIN session_state
    /\ cache_stats.misses > 0

\* C9: set(k, v, ttl) stores v under k with expiration (time of set) + ttl,
\* whatever was stored under k before, and a get(k) before that expiration
\* returns the value stored last.
C9_SetThenGet ==
    [][\A key \in Keys :
          /\ \A value \in Values, ttl \in TTLs \ {None} :
                CacheSet(key, value, ttl) =>
                    /\ CacheKey(key) \in DOMAIN session_state'
                    /\ session_state'[CacheKey(key)].value = value
                    /\ session_state'[CacheKey(key)].expiration = clock + ttl
          /\ (/\ CacheGet(key)
              /\ CacheKey(key) \in DOMAIN session_state
              /\ clock < session_state[CacheKey(key)].expiration)
                => cache_ret'.value = session_state[CacheKey(key)].value
      ]_vars

Quiescent == \A t \in Threads : c_pc[t] \in {"idle", "done"}

\* C10: under every interleaving no operation of the cache fails because
\* another thread removed the entry between its test and its read or
\* delete, and no increment of a counter is lost: once every operation has
\* ended, total_requests counts every get and every get is a hit or a miss.
C10_NoRace ==
    /\ \A t \in Threads : c_result[t].status # "raised"
    /\ Quiescent
          => /\ cache_stats.total_requests = gets_called
             /\ cache_stats.hits + cache_stats.misses = gets_called

(***************************************************************************)
(* Claims about _load_courses_raw                                          *)
(***************************************************************************)
\* the worksheets that line 198 does not skip
NonSkipped == {i \in DOMAIN workbook : ~Skipped(workbook[i].title)}

\* the worksheets whose read or parse fails
FailedTabs ==
    {i \in NonSkipped :
        \/ workbook[i].get_all_values # NoException
        \/ TooShort(workbook[i].all_data)
        \/ Estudiantes(workbook[i].all_data) = <<>>}

\* a call that reached the loop over the worksheets has returned
LoopReturned == parse_pc = "idle" /\ worksheet_index > 0

\* C18: a worksheet whose parse yields no student or no class date has no
\* entry in the result, and every course of the result has students and
\* class dates of the worksheet.
C18_EmptyTabAbsent ==
    /\ \A i \in DOMAIN workbook :
          (\/ Estudiantes(workbook[i].all_data) = <<>>
           \/ Fechas(workbook[i].all_data) = <<>>)
              => workbook[i].title \notin DOMAIN parse_result
    /\ \A name \in DOMAIN parse_result :
          /\ parse_result[name].estudiantes # <<>>
          /\ parse_result[name].fechas # <<>>
          /\ parse_result[name].fechas # <<SinFechas>>

\* C19: once the loop has ended the result holds exactly the courses of
\* the worksheets that neither were skipped nor failed, each one as its
\* own grid gives it, and successful_sheets + failed_sheets is the number
\* of worksheets that were not skipped.
C19_TabFailuresIsolated ==
    LoopReturned =>
        /\ DOMAIN parse_result
              = {workbook[i].title : i \in NonSkipped \ FailedTabs}
        /\ \A i \in NonSkipped \ FailedTabs :
              parse_result[workbook[i].title]
                  = Course(workbook[i].all_data, parse_time)
        /\ successful_sheets = Cardinality(NonSkipped \ FailedTabs)
        /\ failed_sheets = Cardinality(FailedTabs)
        /\ successful_sheets + failed_sheets = Cardinality(NonSkipped)

\* one worksheet was skipped, the read of one raised and one gave a course
C19_Witness ==
    /\ LoopReturned
    /\ NonSkipped # DOMAIN workbook
    /\ \E i \in FailedTabs : workbook[i].get_all_values # NoException
    /\ successful_sheets = 1
    /\ failed_sheets = 1

\* C20: two calls on the same grids give the same value for every course,
\* field for field.
C20_ParseDeterministic ==
    (parse_pc = "idle" /\ parse_runs = 2) =>
        \A name \in DOMAIN parse_result \cap DOMAIN previous_result :
            parse_result[name] = previous_result[name]

(***************************************************************************)
(* Claims about the public operations of GoogleSheetsManager               *)
(***************************************************************************)
\* C16: whatever a call of the remote client raises, at whichever point of
\* a public operation, the operation returns a value: no exception reaches
\* its caller.
C16_NoExceptionEscapes ==
    facade_outcome # NoOutcome => facade_outcome.kind = "returned"

\* the last append of save_attendance hit the quota and the operation
\* returned False
C16_Witness ==
    /\ facade_call.op = "save_attendance"
    /\ facade_call.point.step = "append_rows"
    /\ facade_call.error = QuotaExceeded
    /\ facade_outcome = [kind |-> "returned", value |-> "False",
                         error |-> QuotaExceeded]

\* C17: when the remote client rejects the credentials as load_courses
\* opens the workbook, the caller gets an error, or at least something
\* else than what a read that found no course returns.
C17_AuthFailureReachesCaller ==
    (/\ facade_outcome # NoOutcome
     /\ facade_call.op = "load_courses"
     /\ facade_call.point.step = "open_by_key"
     /\ facade_call.error \in {Unauthorized, Forbidden})
        => \/ facade_outcome.kind = "raised"
           \/ facade_outcome.value # Success("load_courses", FALSE)

(***************************************************************************)
(* Claims about the caches and the writes of GoogleSheetsManager           *)
(***************************************************************************)
\* the last operation and the one before it are two calls of
\* load_courses_by_sede for the same sede, the second one less than the
\* TTL of the courses after the first
TwoLoads ==
    /\ sheet_ret.op = "load_courses_by_sede"
    /\ sheet_ret.after.op = "load_courses_by_sede"
    /\ sheet_ret.after.arg = sheet_ret.arg
    /\ sheet_ret.time - sheet_ret.after.time < CoursesTTL

\* the second call fetches nothing, and both together fetch the courses at
\* most once and the ledger of each course at most once
OneFetchInTotal ==
    /\ sheet_ret.fetches = NoFetches
    /\ sheet_ret.after.fetches.courses <= 1
    /\ \A c \in CourseNames : sheet_ret.after.fetches.attendance[c] <= 1

\* C11 as stated: two calls of load_courses_by_sede(sede) within the TTL,
\* with no write and no clear between them, fetch the workbook and each
\* ledger at most once in total, and the second call fetches nothing.
C11_SecondCallNoFetch == TwoLoads => OneFetchInTotal

\* C11 amended: the same, when the first call found every cache empty.
C11_SecondCallNoFetchFromCold ==
    (TwoLoads /\ sheet_ret.after.cold) => OneFetchInTotal

\* the other manager repeats, later, a call that found the caches empty and
\* gets both courses with their ledgers without a fetch
C11_Witness ==
    /\ TwoLoads
    /\ sheet_ret.after.cold
    /\ sheet_ret.after.fetches.courses = 1
    /\ sheet_ret.after.fetches.attendance["A"] = 1
    /\ sheet_ret.manager # sheet_ret.after.manager
    /\ sheet_ret.time > sheet_ret.after.time
    /\ DOMAIN sheet_ret.value = CourseNames
    /\ sheet_ret.fetches = NoFetches

\* C12: the load_courses_by_sede that follows a save_attendance that
\* returned True, by whichever manager, returns for the course a ledger
\* with the rows just written.
C12_ReadAfterWrite ==
    (/\ sheet_ret.op = "load_courses_by_sede"
     /\ sheet_ret.after.op = "save_attendance"
     /\ sheet_ret.after.ok
     /\ sheet_ret.arg = Catalog[sheet_ret.after.arg]
     /\ ~sheet_ret.failed
     /\ sheet_ret.after.arg \in DOMAIN sheet_ret.value)
        => \A estudiante \in DOMAIN sheet_ret.after.attendance_data :
              <<estudiante, sheet_ret.after.fecha,
                sheet_ret.after.attendance_data[estudiante]>>
                  \in sheet_ret.value[sheet_ret.after.arg].asistencias

\* C13: a ledger that a load returns was fetched at most 15 minutes before.
C13_LedgerFresh ==
    sheet_ret.op = "load_courses_by_sede"
        => \A c \in DOMAIN sheet_ret.value :
              sheet_ret.time - sheet_ret.value[c].fetched <= 15

\* the worksheet of the course of the last save_attendance, and the rows
\* it has gained since the call
TabNow ==
    IF sheet_ret.arg \in DOMAIN tabs THEN tabs[sheet_ret.arg] ELSE <<>>
NewRows == SubSeq(TabNow, Len(sheet_ret.before) + 1, Len(TabNow))

\* one row per student of attendance_data: course, date, student, 1 or 0,
\* timestamp, user
ExpectedRows ==
    [i \in 1..Cardinality(DOMAIN sheet_ret.attendance_data) |->
        <<sheet_ret.arg, sheet_ret.fecha, i,
          IF sheet_ret.attendance_data[i] THEN 1 ELSE 0,
          sheet_ret.time, sheet_ret.user>>]

\* C14: a save_attendance that returns False has appended none of its
\* rows, and one that returns True has appended all of them.
C14_AllOrNothing ==
    sheet_ret.op = "save_attendance" =>
        IF sheet_ret.ok
        THEN \A i \in DOMAIN ExpectedRows :
                \E j \in DOMAIN NewRows : NewRows[j] = ExpectedRows[i]
        ELSE \A j \in DOMAIN NewRows :
                \A i \in DOMAIN ExpectedRows : NewRows[j] # ExpectedRows[i]

\* the worksheet as the call found it is a prefix of the worksheet now
PrefixKept ==
    /\ Len(sheet_ret.before) <= Len(TabNow)
    /\ SubSeq(TabNow, 1, Len(sheet_ret.before)) = sheet_ret.before

\* C15 as stated: every save_attendance keeps the rows of the worksheet,
\* in place, and one that returns True appends exactly one row per
\* student.
C15_AppendOnly ==
    sheet_ret.op = "save_attendance" =>
        /\ PrefixKept
        /\ sheet_ret.ok => NewRows = ExpectedRows

\* the new rows without the headers that a call writes first when it
\* creates the worksheet
NewDataRows ==
    IF ~sheet_ret.existed /\ NewRows # <<>> /\ Head(NewRows) = Header
    THEN Tail(NewRows)
    ELSE NewRows

\* C15 amended: every save_attendance keeps the rows of the worksheet, in
\* place; one that returns True appends exactly one row per student, after
\* a row of headers when it creates the worksheet; one that returns False
\* has appended whole batches of 50 of these rows, or none.
C15_AppendOnlyWithHeader ==
    sheet_ret.op = "save_attendance" =>
        /\ PrefixKept
        /\ sheet_ret.existed => NewDataRows = NewRows
        /\ sheet_ret.ok =>
              /\ NewDataRows = ExpectedRows
              /\ ~sheet_ret.existed => Head(NewRows) = Header
        /\ ~sheet_ret.ok =>
              /\ Len(NewDataRows) <= Len(ExpectedRows)
              /\ Len(NewDataRows) % BatchSize = 0
              /\ NewDataRows = SubSeq(ExpectedRows, 1, Len(NewDataRows))

\* a call has created the worksheet of a course and written its two
\* batches after the headers
C15_Witness ==
    /\ sheet_ret.op = "save_attendance"
    /\ sheet_ret.ok
    /\ ~sheet_ret.existed
    /\ Len(TabNow) = BatchSize + 2
    /\ NewDataRows = ExpectedRows

(***************************************************************************)
(* Claims about the layout that _load_courses_raw reads                    *)
(***************************************************************************)
\* the worksheets laid out with d class dates and s students that the call
\* has read
LandmarkTabs(d, s) ==
    {i \in DOMAIN workbook :
        /\ workbook[i].get_all_values = NoException
        /\ \E top \in MarkerRows : workbook[i].all_data = LandmarkGrid(top, d, s)}

\* C21: the course of a worksheet with "FECHAS", d class dates, "NOMBRES
\* ESTUDIANTES" and s students in its first column has exactly the d dates
\* as its class dates and exactly the s students as its students, in the
\* order of the grid.
C21_LandmarkParsing ==
    LoopReturned =>
        \A d \in {1, MaxDates}, s \in {1, MaxRoster} :
            \A i \in LandmarkTabs(d, s) :
                /\ workbook[i].title \in DOMAIN parse_result
                /\ parse_result[workbook[i].title].fechas = DateCells(d)
                /\ parse_result[workbook[i].title].estudiantes
                       = StudentCells(s)

(***************************************************************************)
(* Claims about the attendance of the reports                              *)
(***************************************************************************)
\* the counts of a student add up to the total class dates
Balanced(row, total) ==
    /\ row.presentes >= 0
    /\ row.ausentes >= 0
    /\ row.presentes + row.ausentes = total
    /\ row.porcentaje \in 0..1000

\* C22: for every course and every student of its roster, whatever the
\* ledger holds, the present and absent counts are not negative and sum to
\* the number of class dates, and the percentage is between 0 and 100.
C22_CountsPartitionDates ==
    /\ report_result.fn = "_calculate_student_stats" =>
          Balanced(report_result.value, Len(report_call.curso_data.fechas))
    /\ report_result.fn = "_calcular_datos_asistencia" =>
          \A i \in DOMAIN report_result.value :
              Balanced(report_result.value[i],
                       Len(report_call.curso_data.fechas))

\* the students that "asistencias" has records of
LedgerStudents(curso_data) ==
    {curso_data.asistencias[i].estudiante :
        i \in DOMAIN curso_data.asistencias}
\* the roster
Roster(curso_data) ==
    {curso_data.estudiantes[i] : i \in DOMAIN curso_data.estudiantes}

\* C23: get_low_attendance_students, for a threshold above 0, lists every
\* student of the roster without records, at 0%, and lists no student who
\* is not in the roster.
C23_RosterLedgerJoin ==
    report_result.fn = "get_low_attendance_students" =>
        /\ \A e \in Roster(report_call.curso_data)
                       \ LedgerStudents(report_call.curso_data) :
              \E i \in DOMAIN report_result.value :
                  /\ report_result.value[i].estudiante = e
                  /\ report_result.value[i].porcentaje = 0
        /\ \A i \in DOMAIN report_result.value :
              report_result.value[i].estudiante
                  \in Roster(report_call.curso_data)

\* the values that stand for "present": the number 1, the strings "1" and
\* "1.0", true, and "presente", "si" and "sí" in any case; the blanks
\* around a string do not count
PresentToken(estado) ==
    CASE estado.type = "bool" -> estado.repr = <<"T", "r", "u", "e">>
      [] estado.type \in {"int", "float"} ->
             estado.repr \in {<<"1">>, <<"1", ".", "0">>}
      [] estado.type = "str" ->
             Lower(Strip(estado.repr))
                 \in {<<"1">>, <<"1", ".", "0">>, <<"s", "i">>,
                      <<"s", "i_acute">>,
                      <<"p", "r", "e", "s", "e", "n", "t", "e">>}
      [] OTHER -> FALSE

\* C24: a value is decoded as present exactly when it is one of the values
\* that stand for "present".
C24_PresenceDecoding ==
    report_result.fn \in {"_load_attendance_raw",
                          "_manual_parse_courses_safe"} =>
        report_result.value = PresentToken(report_call.estado)

(***************************************************************************)
(* Claims about CacheManager.invalidate_pattern                            *)
(***************************************************************************)
\* the cache entries whose key begins with pattern
BeginningWith(state, pattern) ==
    {k \in DOMAIN state : StartsWith(k, CacheKey(pattern))}

\* C25: invalidate_pattern(p) removes exactly the cache entries whose key
\* begins with p, adds one to the invalidation counter for each of them
\* and leaves every other key of st.session_state and every other counter
\* as they were.
C25_InvalidatePrefix ==
    [][\A pattern \in Patterns :
          InvalidatePattern(pattern) =>
              /\ session_state'
                     = Without(session_state,
                               BeginningWith(session_state, pattern))
              /\ cache_stats'
                     = Bump(cache_stats, "invalidations",
                            Cardinality(BeginningWith(session_state,
                                                      pattern)))]_vars

(***************************************************************************)
(* Claims about the call budget of the data layer                          *)
(***************************************************************************)
\* the calls of the remote client in the 60 seconds that end with call i
InWindowOf(i) ==
    {j \in DOMAIN remote_log :
        /\ remote_log[j].time <= remote_log[i].time
        /\ remote_log[j].time > remote_log[i].time - Window}

\* C26: no 60 second window holds more calls of the remote client than the
\* ceiling, and every call of the remote client is made under the wrapper
\* of one and the same rate limiter.
C26_OneBudget ==
    /\ \A i \in DOMAIN remote_log :
          Cardinality(InWindowOf(i)) <= CallsPerMinute
    /\ \A i, j \in DOMAIN remote_log :
          /\ remote_log[i].limiter # "none"
          /\ remote_log[i].limiter = remote_log[j].limiter

(***************************************************************************)
(* Claims about the retries of the reads                                   *)
(***************************************************************************)
\* the reads and the calls of the remote client they make
Reads == {"load_courses", "load_attendance_for_course", "load_emails"}
RemoteSteps ==
    {"open_by_key", "worksheets", "worksheet", "get_all_values",
     "get_all_records"}

\* C27: when a call of the remote client raises a quota error or a
\* transient error during a read, the fetch is attempted again before the
\* read returns.
C27_ReadRetried ==
    (/\ facade_outcome # NoOutcome
     /\ facade_call.op \in Reads
     /\ facade_call.point.step \in RemoteSteps
     /\ facade_call.error \in {QuotaExceeded, Transient})
        => Attempts(facade_call.error, facade_call.point.chain) > 1

(***************************************************************************)
(* Claims about what a read stores when its fetch fails                    *)
(***************************************************************************)
\* the load fetches the catalogue of the courses, and the fetch fails
CoursesFetchFails(fail_courses) ==
    fail_courses /\ remote_calls'.courses > remote_calls.courses

\* the courses whose ledger the load fetches with a fetch that fails
LedgerFetchFails(fails) ==
    {c \in fails : remote_calls'.attendance[c] > remote_calls.attendance[c]}

\* C28: a read whose remote fetch fails stores nothing: after it neither
\* st.cache_data nor the _attendance_cache of the manager holds an entry
\* for the request.
C28_NothingStoredOnFailure ==
    [][\A m \in Managers, sede \in Sedes, fail_courses \in BOOLEAN,
          fails \in SUBSET CourseNames :
           LoadCoursesBySede(m, sede, fail_courses, fails) =>
               /\ CoursesFetchFails(fail_courses) =>
                      CoursesKey \notin DOMAIN data_cache'
               /\ \A c \in LedgerFetchFails(fails) :
                      /\ AttendanceKey(c) \notin DOMAIN data_cache'
                      /\ c \notin DOMAIN attendance_cache'[m]]_vars

(***************************************************************************)
(* Claims about the release of the lock flag                               *)
(***************************************************************************)
\* the positions of a caller that waits for the lock flag
WaitingPcs == {"test_lock", "spin_sleep"}

\* no thread is between "lock = True" and the end of "finally"
NobodyInside == \A t \in Threads : pc[t] \notin CriticalPcs

\* C30: whenever no call is between acquiring the lock flag and the end of
\* its finally clause the flag is free, whether the calls before returned
\* or raised, and every caller that waits for the flag eventually invokes
\* the wrapped function.
C30_LockReleased ==
    /\ [](NobodyInside => ~lock)
    /\ \A t \in Threads : (pc[t] \in WaitingPcs) ~> (pc[t] = "func")

\* a caller spins on the flag while the wrapped function of another call is
\* about to raise
C30_Witness ==
    \E t, u \in Threads :
        /\ pc[t] = "spin_sleep"
        /\ pc[u] = "func"
        /\ lock

(***************************************************************************)
(* Claims about the steps of a read                                        *)
(***************************************************************************)
\* where a step occurs in the read under way or last made
At(step) == {i \in DOMAIN read_trace : read_trace[i] = step}

====
